---- MODULE Spec2Model ----
(***************************************************************************)
(* A model of the mini-dev development server (dist/dev-server.js) and of  *)
(* the browser runtime it generates (src/hmr-client.ts).                   *)
(*                                                                         *)
(* A string is held as a sequence of tokens: "/" is a token of its own and *)
(* every other token is one path segment or name ("main.ts", "..").        *)
(* "/app/main.ts" is <<"/", "app", "/", "main.ts">>.                       *)
(*                                                                         *)
(* The specifications of the module:                                       *)
(*   Spec          the server's lifecycle: start, connections, the         *)
(*                 watcher, stop                                           *)
(*   SpecRegistry  the registry with one connection and typed-script       *)
(*                 requests                                                *)
(*   SpecModules   the registry, the watcher and typed-script requests     *)
(*   SpecRequest   the request router, one request against a file system   *)
(*   SpecEnv       requests of the env endpoint, one after the other       *)
(*   SpecClient    the browser runtime's message handler                   *)
(*   SpecImports   one call of transformImports                            *)
(*   SpecLinked    typed-script modules that import one another            *)
(*   SpecInstances two servers in one process                              *)
(*   SpecConsole   the lifecycle under every silent and verbose option     *)
(***************************************************************************)
EXTENDS Integers, Sequences, FiniteSets, TLC

\* ------------------------------------------------------------------ bounds
MaxConns == 1      \* connections that may ever be opened
MaxEdits == 2      \* writes to watched files
MaxTime == 1       \* clock readings 0..MaxTime
MaxInflight == 1   \* typed-script requests in flight at once
MaxSegs == 2       \* segments of a request path
MaxCallbacks == 1  \* callbacks registered with accept
MaxImports == 1    \* statements of a module's transpiled code

VARIABLES
    \* ---- server instance (DevServer fields)
    basePrefix,    \* this.basePrefix, "" or "/app"
    moduleGraph,   \* this.moduleGraph: url -> {code, timestamp, url}
    clients,       \* this.clients
    httpServer,    \* this.httpServer: "null", "created", "listening", "closing", "closed"
    wss,           \* this.wss: "null", "open", "closed"
    watcher,       \* this.watcher and the watcher's state: "null", "watching", "closing", "closed"
    startPc,       \* start(): "idle", "listening" (waiting for the listen callback), "resolved"
    startValue,    \* what the promise of start() resolved with, NoValue before
    stopPc,        \* stop(): "idle", "awaitWatcher", "awaitHttp", "done"
    \* ---- environment of the server
    now,           \* the value Date.now() returns
    wsState,       \* readyState of each connection: "none", "open", "closing", "closed"
    inbox,         \* the messages sent to each connection, in order
    disk,          \* version of the content of each watched file
    pending,       \* files the watcher has seen change and not yet reported
    inflight,      \* typed-script requests between their file read and their response: how
                   \* many there are for each URL and content read
    \* ---- history
    sent,          \* the update messages broadcast, in order
    lastChange,    \* the last change event handled
    stopTrace,     \* the effects of stop(), in the order it performs them
    served,        \* the typed-script response the server writes in the present step,
                   \* <<>> in a step that writes none
    \* ---- diagnostics
    silent,        \* this.silent
    verbose,       \* this.verbose
    terminal,      \* the kinds of lines the server has written with console.log
    \* ---- two DevServer objects in one process
    instances,     \* the moduleGraph and clients fields of each object
    sockets,       \* each connection: the object whose socket server accepted it, its
                   \* readyState and the messages sent to it
    \* ---- configuration and file system seen by the request router
    proxyRules,    \* this.proxyRules
    envPrefix,     \* this.envPrefix, "null" when the env endpoint is disabled
    publicEnv,     \* this.publicEnv: the variables loaded for the env endpoint, in order
    publicKind,    \* what <root>/public is: "absent", "dir" or "file"
    \* ---- one request through handleRequest
    reqPc,         \* "idle", "proxy", "proxyBody", "public", "nodeModule", "ext", "settled"
    reqUrl,        \* req.url
    resStatus,     \* the status given to res.writeHead, 0 while no head is written
    resBody,       \* what res.end was given
    resEnded,      \* res.end has been called
    resFile,       \* the file whose content the response carries
    resSource,     \* what the handler read to compute the body
    resBy,         \* the handler that wrote the response
    outcome,       \* the promise of handleRequest: "pending", "resolved", "rejected"
    raised,        \* the message of the error that left a step of the router, "" if none
    \* ---- one call of transformImports by serveTypeScript
    tsModule,      \* the module served: its URL and its transpiled code, statement by statement
    tsBody,        \* what transformImports returned for it, <<>> before the call
    \* ---- the client runtime in one browser page
    page,            \* the page's HTML: its module scripts and stylesheet links
    acceptors,       \* the acceptors map: path -> callbacks, in registration order
    links,           \* href of each stylesheet link of the document
    cliPc,           \* socket.onmessage: "idle", "importModule", "importEntry"
    cliMsg,          \* the message the handler is working on
    imported,        \* the URL the handler gave to import() for cliMsg, <<>> if none
    lastRun,         \* how the last run of the handler went
    reloadRequested, \* location.reload() has been called in this page
    dispatch,        \* the branch the handler took for cliMsg, and the acceptors' keys then
    calls            \* the callbacks the handler invoked for cliMsg, in order

\* the server's variables without the terminal
instanceVars == <<basePrefix, moduleGraph, clients, httpServer, wss, watcher, startPc, startValue, stopPc,
                  now, wsState, inbox, disk, pending, inflight,
                  sent, lastChange, stopTrace, served, silent, verbose>>

serverVars == <<instanceVars, terminal>>

reqVars == <<proxyRules, envPrefix, publicEnv, publicKind, reqPc, reqUrl, resStatus, resBody, resEnded,
             resFile, resSource, resBy, outcome, raised, tsModule, tsBody>>

clientVars == <<page, acceptors, links, cliPc, cliMsg, imported, lastRun, reloadRequested,
                dispatch, calls>>

fleetVars == <<instances, sockets>>

vars == <<serverVars, reqVars, clientVars, fleetVars>>

\* what the lifecycle actions leave alone
others == <<reqVars, clientVars, silent, verbose, fleetVars>>

Conns == 1..MaxConns

\* two servers constructed in the same process
Instances == {"a", "b"}

\* the connections browsers may open to them
Sockets == {"s1", "s2"}

\* ------------------------------------------------------------ strings
StartsWith(s, p) == Len(s) >= Len(p) /\ SubSeq(s, 1, Len(p)) = p

Last(q) == q[Len(q)]

Slice(s, n) == SubSeq(s, n + 1, Len(s))

\* index of the first occurrence of pat in s, 0 when there is none
IndexOf(s, pat) ==
    LET hits == {i \in 1..(Len(s) - Len(pat) + 1) : SubSeq(s, i, i + Len(pat) - 1) = pat}
    IN IF hits = {} THEN 0 ELSE CHOOSE i \in hits : \A j \in hits : i <= j

\* String.prototype.replace with a string pattern: the first occurrence only
ReplaceFirst(s, pat, rep) ==
    LET i == IndexOf(s, pat)
    IN IF i = 0 THEN s
       ELSE SubSeq(s, 1, i - 1) \o rep \o SubSeq(s, i + Len(pat), Len(s))

\* .replace(/\\/g, '/')
BackslashToSlash(s) == [i \in 1..Len(s) |-> IF s[i] = "\\" THEN "/" ELSE s[i]]

\* ------------------------------------------------------------ configuration
Root == <<"/", "srv", "/", "app">>

BasePrefixes == {<<>>, <<"/", "app">>}

Base == IF basePrefix # <<>> THEN basePrefix \o <<"/">> ELSE <<>>

\* this.port, as the digits the URL shows
Port == "3000"

WatchedFiles == {Root \o <<"/", "main.ts">>, Root \o <<"/", "app", "/", "style.css">>}

TsUrls == {<<"/", "main.ts">>}

EmptyGraph == [u \in {} |-> 0]

NoChange == [file |-> <<>>, url |-> <<>>, hadEntry |-> FALSE, to |-> {},
             registryAtSend |-> {}, msg |-> [type |-> "none", path |-> <<>>, timestamp |-> 0]]

\* the fields a constructed DevServer starts with: moduleGraph = new Map(),
\* clients = new Set()
NewInstance == [moduleGraph |-> EmptyGraph, clients |-> {}]

\* a connection no browser has opened yet
NoSocket == [owner |-> "none", readyState |-> "none", inbox |-> <<>>]

\* the promise of start() is pending
NoValue == [port |-> "", url |-> <<>>]

InitServer ==
    /\ basePrefix \in BasePrefixes
    /\ moduleGraph = EmptyGraph
    /\ clients = {}
    /\ httpServer = "null"
    /\ wss = "null"
    /\ watcher = "null"
    /\ startPc = "idle"
    /\ startValue = NoValue
    /\ stopPc = "idle"
    /\ now = 0
    /\ wsState = [c \in Conns |-> "none"]
    /\ inbox = [c \in Conns |-> <<>>]
    /\ disk = [f \in WatchedFiles |-> 0]
    /\ pending = {}
    /\ inflight = [r \in {} |-> 0]
    /\ served = <<>>
    /\ sent = <<>>
    /\ lastChange = NoChange
    /\ stopTrace = <<>>
    /\ terminal = {}
    /\ instances = [i \in Instances |-> NewInstance]
    /\ sockets = [s \in Sockets |-> NoSocket]

\* the options of a server that is to write no diagnostics
SilentOptions == silent = TRUE /\ verbose = FALSE

NoBody == [kind |-> "none", arg |-> <<>>]

\* no request has arrived
InitRequest ==
    /\ reqPc = "idle"
    /\ reqUrl = <<>>
    /\ resStatus = 0
    /\ resBody = NoBody
    /\ resEnded = FALSE
    /\ resFile = <<>>
    /\ resSource = <<>>
    /\ resBy = "none"
    /\ publicEnv = <<>>
    /\ outcome = "pending"
    /\ raised = ""

\* no module is being transformed
NoModule == [path |-> <<>>, code |-> <<>>]

NoTransform == tsModule = NoModule /\ tsBody = <<>>

NoRun == [threw |-> FALSE, reloaded |-> FALSE, rejected |-> FALSE]

NoDispatch == [branch |-> "none", keys |-> {}]

\* the script runs in a freshly loaded page
LoadPage ==
    /\ acceptors = [u \in {} |-> <<>>]
    /\ links = page.links
    /\ cliPc = "idle"
    /\ cliMsg = [type |-> "none", path |-> <<>>, timestamp |-> 0]
    /\ imported = <<>>
    /\ lastRun = NoRun
    /\ reloadRequested = FALSE
    /\ dispatch = NoDispatch
    /\ calls = <<>>

\* no browser has opened a page
NoPage == [scripts |-> <<>>, links |-> <<>>]

Init ==
    /\ InitServer
    /\ InitRequest
    /\ NoTransform
    /\ SilentOptions
    /\ proxyRules = <<>>
    /\ envPrefix = "null"
    /\ publicKind = "absent"
    /\ page = NoPage
    /\ LoadPage

\* ------------------------------------------------------------ the clock
\* Date.now(): time has moved on by zero or more milliseconds since the last reading
DateNow(t) == t \in now..MaxTime /\ now' = t

\* ------------------------------------------------------------ diagnostics
\* console.log inside `if (!this.silent)`
Announce(kinds) == terminal' = IF ~silent THEN terminal \cup kinds ELSE terminal

\* this.log(...): console.log when the server is verbose and not silent
log(kinds) == terminal' = IF ~silent /\ verbose THEN terminal \cup kinds ELSE terminal

\* ------------------------------------------------------------ start()
\* `http://localhost:${this.port}${this.base}`
localUrl == <<"http://localhost:", Port>> \o Base

\* a start() whose promise resolves before listen has called back
Start_ResolvesAtOnce ==
    /\ startPc = "idle"
    /\ stopPc = "idle"
    /\ httpServer' = "created"
    /\ wss' = "open"
    /\ watcher' = "watching"
    /\ startPc' = "resolved"
    /\ startValue' = [port |-> Port, url |-> localUrl]
    /\ served' = <<>>
    /\ UNCHANGED <<others, terminal, basePrefix, moduleGraph, clients, stopPc, now, wsState, inbox,
                   disk, pending, inflight, sent, lastChange, stopTrace>>

\* the synchronous part of start(): server, socket server and watcher are created
Start ==
    /\ startPc = "idle"
    /\ stopPc = "idle"
    /\ httpServer' = "created"
    /\ wss' = "open"
    /\ watcher' = "watching"
    /\ startPc' = "listening"
    /\ served' = <<>>
    /\ UNCHANGED <<others, terminal, startValue, basePrefix, moduleGraph, clients, stopPc, now, wsState, inbox, disk, pending,
                   inflight, sent, lastChange, stopTrace>>

\* the listen callback: the promise of start() resolves
Listening ==
    /\ startPc = "listening"
    /\ httpServer = "created"
    /\ httpServer' = "listening"
    /\ startPc' = "resolved"
    /\ startValue' = [port |-> Port, url |-> localUrl]
    /\ served' = <<>>
    /\ terminal' = terminal \cup {"ready"}
    /\ UNCHANGED <<others, basePrefix, moduleGraph, clients, wss, watcher, stopPc, now, wsState, inbox,
                   disk, pending, inflight, sent, lastChange, stopTrace>>

\* ------------------------------------------------------------ connections
\* wss.on('connection'): this.clients.add(ws)
OnConnection(c) == clients' = clients \cup {c}

\* a 'close' handler that forgets the delete
OnClose_KeepsMember(c) == clients' = clients

\* ws.on('close'): this.clients.delete(ws)
OnClose(c) == clients' = clients \ {c}

\* a browser opens a connection and the socket server accepts it
Connect(c) ==
    /\ wsState[c] = "none"
    /\ httpServer = "listening"
    /\ wss = "open"
    /\ wsState' = [wsState EXCEPT ![c] = "open"]
    /\ OnConnection(c)
    /\ served' = <<>>
    /\ Announce({"connected"})
    /\ UNCHANGED <<others, basePrefix, moduleGraph, httpServer, wss, watcher, startPc, startValue, stopPc, now, inbox,
                   disk, pending, inflight, sent, lastChange, stopTrace>>

\* the browser closes the connection: the server's socket leaves the open state
PeerClose(c) ==
    /\ wsState[c] = "open"
    /\ wsState' = [wsState EXCEPT ![c] = "closing"]
    /\ served' = <<>>
    /\ UNCHANGED <<others, terminal, basePrefix, moduleGraph, clients, httpServer, wss, watcher, startPc, startValue, stopPc,
                   now, inbox, disk, pending, inflight, sent, lastChange,
                   stopTrace>>

\* the close handshake of a connection completes and its 'close' event fires
CloseEvent(c) ==
    /\ wsState[c] = "closing"
    /\ wsState' = [wsState EXCEPT ![c] = "closed"]
    /\ OnClose(c)
    /\ served' = <<>>
    /\ log({"disconnected"})
    /\ UNCHANGED <<others, basePrefix, moduleGraph, httpServer, wss, watcher, startPc, startValue, stopPc, now, inbox,
                   disk, pending, inflight, sent, lastChange, stopTrace>>

\* ------------------------------------------------------------ the watcher
RECURSIVE SumOver(_, _)
SumOver(f, S) == IF S = {} THEN 0
                 ELSE LET x == CHOOSE y \in S : TRUE IN f[x] + SumOver(f, S \ {x})

\* a watched file is written; a watcher that is watching will report it
EditFile(f) ==
    /\ SumOver(disk, WatchedFiles) < MaxEdits
    /\ disk' = [disk EXCEPT ![f] = @ + 1]
    /\ pending' = IF watcher = "watching" THEN pending \cup {f} ELSE pending
    /\ served' = <<>>
    /\ UNCHANGED <<others, terminal, basePrefix, moduleGraph, clients, httpServer, wss, watcher, startPc, startValue, stopPc,
                   now, wsState, inbox, inflight, sent, lastChange,
                   stopTrace>>

\* a broadcast that does not look at readyState
broadcast_AnyReadyState(message) ==
    inbox' = [c \in Conns |-> IF c \in clients THEN Append(inbox[c], message) ELSE inbox[c]]

\* broadcast(message): one send to every member of this.clients whose readyState is 1
broadcast(message) ==
    inbox' = [c \in Conns |->
                IF c \in clients /\ wsState[c] = "open" THEN Append(inbox[c], message)
                ELSE inbox[c]]

\* the server-relative URL handleFileChange computes for a file
ChangeUrl(file) ==
    LET relative == BackslashToSlash(ReplaceFirst(file, Root, <<>>))
    IN IF StartsWith(relative, <<"/">>) THEN relative ELSE <<"/">> \o relative

\* a handler that leaves the registry alone
handleFileChange_KeepsEntry(file) ==
    LET url == ChangeUrl(file)
        pathForClient == IF basePrefix # <<>> THEN basePrefix \o url ELSE url
        msg == [type |-> "update", path |-> pathForClient, timestamp |-> now']
    IN /\ moduleGraph' = moduleGraph
       /\ broadcast(msg)
       /\ sent' = Append(sent, msg)
       /\ lastChange' = [file |-> file, url |-> url, hadEntry |-> url \in DOMAIN moduleGraph,
                         to |-> {c \in Conns : inbox'[c] # inbox[c]},
                         registryAtSend |-> DOMAIN moduleGraph, msg |-> msg]

\* a handler that empties the registry (moduleGraph.clear() for moduleGraph.delete(url))
handleFileChange_ClearsAll(file) ==
    LET url == ChangeUrl(file)
        pathForClient == IF basePrefix # <<>> THEN basePrefix \o url ELSE url
        msg == [type |-> "update", path |-> pathForClient, timestamp |-> now']
    IN /\ moduleGraph' = EmptyGraph
       /\ broadcast(msg)
       /\ sent' = Append(sent, msg)
       /\ lastChange' = [file |-> file, url |-> url, hadEntry |-> url \in DOMAIN moduleGraph,
                         to |-> {c \in Conns : inbox'[c] # inbox[c]},
                         registryAtSend |-> {}, msg |-> msg]

\* a handler that broadcasts first and invalidates afterwards
handleFileChange_BroadcastFirst(file) ==
    LET url == ChangeUrl(file)
        pathForClient == IF basePrefix # <<>> THEN basePrefix \o url ELSE url
        msg == [type |-> "update", path |-> pathForClient, timestamp |-> now']
        graph1 == [u \in DOMAIN moduleGraph \ {url} |-> moduleGraph[u]]
    IN /\ broadcast(msg)
       /\ moduleGraph' = graph1
       /\ sent' = Append(sent, msg)
       /\ lastChange' = [file |-> file, url |-> url, hadEntry |-> url \in DOMAIN moduleGraph,
                         to |-> {c \in Conns : inbox'[c] # inbox[c]},
                         registryAtSend |-> DOMAIN moduleGraph, msg |-> msg]

\* handleFileChange(file)
handleFileChange(file) ==
    LET url == ChangeUrl(file)
        graph1 == [u \in DOMAIN moduleGraph \ {url} |-> moduleGraph[u]]
        pathForClient == IF basePrefix # <<>> THEN basePrefix \o url ELSE url
        msg == [type |-> "update", path |-> pathForClient, timestamp |-> now']
    IN /\ moduleGraph' = graph1
       /\ broadcast(msg)
       /\ sent' = Append(sent, msg)
       /\ lastChange' = [file |-> file, url |-> url, hadEntry |-> url \in DOMAIN moduleGraph,
                         to |-> {c \in Conns : inbox'[c] # inbox[c]},
                         registryAtSend |-> DOMAIN graph1, msg |-> msg]

\* the watcher may report a change until its close() has resolved (the source
\* registers the handler once, in start(), and never removes it)
WatcherEmits == watcher \in {"watching", "closing"}

\* watcher.on('change', handleFileChange)
FileChange(f) ==
    /\ f \in pending
    /\ WatcherEmits
    /\ pending' = pending \ {f}
    /\ \E t \in now..MaxTime : DateNow(t)
    /\ handleFileChange(f)
    /\ served' = <<>>
    /\ Announce({"changed"} \cup (IF clients # {} THEN {"sent"} ELSE {}))
    /\ UNCHANGED <<others, basePrefix, clients, httpServer, wss, watcher, startPc, startValue, stopPc, wsState,
                   disk, inflight, stopTrace>>

\* ------------------------------------------------------------ typed-script requests
FileOf(url) == Root \o url

\* serveTypeScript up to the file read: the request holds the content it read
TsRequest(u) ==
    /\ httpServer = "listening"
    /\ SumOver(inflight, DOMAIN inflight) < MaxInflight
    /\ LET r == [url |-> u, src |-> disk[FileOf(u)]]
       IN inflight' = [q \in DOMAIN inflight \cup {r} |->
                         IF q = r THEN (IF r \in DOMAIN inflight THEN inflight[r] + 1 ELSE 1)
                         ELSE inflight[q]]
    /\ served' = <<>>
    /\ UNCHANGED <<others, terminal, basePrefix, moduleGraph, clients, httpServer, wss, watcher, startPc, startValue, stopPc,
                   now, wsState, inbox, disk, pending, sent, lastChange,
                   stopTrace>>

\* what the registry holds for a URL: nothing, an entry built from the file's
\* present content, or an entry built from older content
RegistryHolds(u) ==
    IF u \notin DOMAIN moduleGraph THEN "none"
    ELSE IF moduleGraph[u].code.src = disk[FileOf(u)] THEN "current"
    ELSE "stale"

\* a transpiler whose output carries the time outside the ?t= values
Transformed_StampedSource(r, t1) == [src |-> r.src + t1 + 1, t |-> t1]

\* a serveTypeScript that answers from the registry when it holds the URL
Transformed_FromRegistry(r, t1) ==
    IF r.url \in DOMAIN moduleGraph THEN moduleGraph[r.url].code ELSE [src |-> r.src, t |-> t1]

\* the code serveTypeScript answers: the transpiled content it read, its
\* imports rewritten with the stamp t1
Transformed(r, t1) == [src |-> r.src, t |-> t1]

\* serveTypeScript from the transpiler's answer on: rewrite, record, respond
\* (transformImports reads the clock, then serveTypeScript reads it again)
TsRespond(r) ==
    /\ r \in DOMAIN inflight
    /\ \E t1 \in now..MaxTime : \E t2 \in t1..MaxTime :
         /\ DateNow(t2)
         /\ LET transformed == Transformed(r, t1)
                record == [code |-> transformed, timestamp |-> t2, url |-> r.url]
                response == [url |-> r.url, read |-> r.src, status |-> 200,
                             type |-> "application/javascript", body |-> transformed,
                             held |-> RegistryHolds(r.url)]
            IN /\ moduleGraph' = [u \in DOMAIN moduleGraph \cup {r.url} |->
                                    IF u = r.url THEN record ELSE moduleGraph[u]]
               /\ served' = <<response>>
    /\ inflight' = [q \in DOMAIN inflight \ (IF inflight[r] = 1 THEN {r} ELSE {}) |->
                      IF q = r THEN inflight[r] - 1 ELSE inflight[q]]
    /\ UNCHANGED <<others, terminal, basePrefix, clients, httpServer, wss, watcher, startPc, startValue,
                   stopPc, wsState, inbox, disk, pending, sent, lastChange, stopTrace>>

\* the message of the error esbuild's transform rejects with
TransformError == "TransformError"

\* a failure path that drops the URL's entry before it answers
TsFail_DropsEntry(r) ==
    /\ r \in DOMAIN inflight
    /\ moduleGraph' = [u \in DOMAIN moduleGraph \ {r.url} |-> moduleGraph[u]]
    /\ served' = <<[url |-> r.url, read |-> r.src, status |-> 500, type |-> "text/plain",
                    body |-> [message |-> TransformError],
                    held |-> RegistryHolds(r.url)]>>
    /\ inflight' = [q \in DOMAIN inflight \ (IF inflight[r] = 1 THEN {r} ELSE {}) |->
                      IF q = r THEN inflight[r] - 1 ELSE inflight[q]]
    /\ log({"error"})
    /\ UNCHANGED <<others, basePrefix, clients, httpServer, wss, watcher, startPc, startValue,
                   stopPc, now, wsState, inbox, disk, pending, sent, lastChange, stopTrace>>

\* serveTypeScript when transform rejects: nothing after the await runs, and
\* the catch of handleRequest answers 500 with the error's message
TsFail(r) ==
    /\ r \in DOMAIN inflight
    /\ served' = <<[url |-> r.url, read |-> r.src, status |-> 500, type |-> "text/plain",
                    body |-> [message |-> TransformError],
                    held |-> RegistryHolds(r.url)]>>
    /\ inflight' = [q \in DOMAIN inflight \ (IF inflight[r] = 1 THEN {r} ELSE {}) |->
                      IF q = r THEN inflight[r] - 1 ELSE inflight[q]]
    /\ log({"error"})
    /\ UNCHANGED <<others, basePrefix, moduleGraph, clients, httpServer, wss, watcher,
                   startPc, startValue, stopPc, now, wsState, inbox, disk, pending, sent, lastChange,
                   stopTrace>>

\* ------------------------------------------------------------ stop()
Effect(op, c) == [op |-> op, conn |-> c]

RECURSIVE CloseCalls(_)
CloseCalls(S) == IF S = {} THEN <<>>
                 ELSE LET c == CHOOSE x \in S : \A y \in S : x <= y
                      IN <<Effect("client.close", c)>> \o CloseCalls(S \ {c})

\* a teardown that closes the listener before the connections
StopTeardown_ListenerFirst(trace) ==
    LET t0 == IF httpServer \notin {"null", "closed"}
              THEN Append(trace, Effect("httpServer.close", 0)) ELSE trace
        t1 == IF wss # "null"
              THEN t0 \o CloseCalls(clients)
                      \o <<Effect("clients.clear", 0), Effect("wss.close", 0)>>
              ELSE t0
    IN /\ wsState' = IF wss # "null"
                     THEN [c \in Conns |-> IF c \in clients /\ wsState[c] = "open"
                                           THEN "closing" ELSE wsState[c]]
                     ELSE wsState
       /\ clients' = IF wss # "null" THEN {} ELSE clients
       /\ wss' = IF wss # "null" THEN "closed" ELSE wss
       /\ httpServer' = IF httpServer \notin {"null", "closed"} THEN "closing" ELSE httpServer
       /\ stopPc' = IF httpServer \notin {"null", "closed"} THEN "awaitHttp" ELSE "done"
       /\ stopTrace' = t1

\* stop() after the watcher: the connections, the socket server, the listener
StopTeardown(trace) ==
    LET t1 == IF wss # "null"
              THEN trace \o CloseCalls(clients)
                         \o <<Effect("clients.clear", 0), Effect("wss.close", 0)>>
              ELSE trace
    IN /\ wsState' = IF wss # "null"
                     THEN [c \in Conns |-> IF c \in clients /\ wsState[c] = "open"
                                           THEN "closing" ELSE wsState[c]]
                     ELSE wsState
       /\ clients' = IF wss # "null" THEN {} ELSE clients
       /\ wss' = IF wss # "null" THEN "closed" ELSE wss
       /\ IF httpServer \notin {"null", "closed"}
          THEN /\ httpServer' = "closing"
               /\ stopPc' = "awaitHttp"
               /\ stopTrace' = Append(t1, Effect("httpServer.close", 0))
          ELSE /\ httpServer' = httpServer
               /\ stopPc' = "done"
               /\ stopTrace' = t1

\* a stop() that asks the watcher to close and does not wait for it
StopCall_NoAwait ==
    /\ stopPc = "idle"
    /\ startPc = "resolved"
    /\ watcher' = IF watcher # "null" THEN "closing" ELSE watcher
    /\ StopTeardown(IF watcher # "null" THEN <<Effect("watcher.close", 0)>> ELSE <<>>)
    /\ served' = <<>>
    /\ UNCHANGED <<others, terminal, basePrefix, moduleGraph, startPc, startValue, now, inbox, disk, pending, inflight,
                   sent, lastChange>>

\* stop() is called: it asks the watcher to close and waits for it
StopCall ==
    /\ stopPc = "idle"
    /\ startPc = "resolved"
    /\ IF watcher # "null"
       THEN /\ watcher' = "closing"
            /\ stopPc' = "awaitWatcher"
            /\ stopTrace' = <<Effect("watcher.close", 0)>>
            /\ UNCHANGED <<wsState, clients, wss, httpServer>>
       ELSE /\ watcher' = watcher
            /\ StopTeardown(<<>>)
    /\ served' = <<>>
    /\ UNCHANGED <<others, terminal, basePrefix, moduleGraph, startPc, startValue, now, inbox, disk, pending, inflight,
                   sent, lastChange>>

\* the watcher's close() resolves and stop() goes on
StopWatcherClosed ==
    /\ stopPc = "awaitWatcher"
    /\ watcher' = "closed"
    /\ pending' = {}
    /\ StopTeardown(Append(stopTrace, Effect("watcher.closed", 0)))
    /\ served' = <<>>
    /\ UNCHANGED <<others, terminal, basePrefix, moduleGraph, startPc, startValue, now, inbox, disk, inflight,
                   sent, lastChange>>

\* the listener has closed (no connection and no request is left): stop() resolves
StopHttpClosed ==
    /\ stopPc = "awaitHttp"
    /\ \A c \in Conns : wsState[c] \in {"none", "closed"}
    /\ DOMAIN inflight = {}
    /\ httpServer' = "closed"
    /\ stopPc' = "done"
    /\ stopTrace' = Append(stopTrace, Effect("httpServer.closed", 0))
    /\ served' = <<>>
    /\ UNCHANGED <<others, terminal, basePrefix, moduleGraph, clients, wss, watcher, startPc, startValue, now, wsState, inbox,
                   disk, pending, inflight, sent, lastChange>>

\* ------------------------------------------------------------ the lifecycle
NextServer ==
    \/ Start
    \/ Listening
    \/ \E c \in Conns : Connect(c)
    \/ \E c \in Conns : PeerClose(c)
    \/ \E c \in Conns : CloseEvent(c)
    \/ \E f \in WatchedFiles : EditFile(f)
    \/ \E f \in WatchedFiles : FileChange(f)
    \/ StopCall
    \/ StopWatcherClosed
    \/ StopHttpClosed

Next == NextServer

Spec == Init /\ [][Next]_vars

\* ------------------------------------------------------------ the registry
\* one browser stays connected while files are edited and modules requested
RegistryConns == {1}

NextRegistry ==
    \/ Start
    \/ Listening
    \/ \E c \in RegistryConns : Connect(c)
    \/ \E f \in WatchedFiles : EditFile(f)
    \/ \E f \in WatchedFiles : FileChange(f)
    \/ \E u \in TsUrls : TsRequest(u)
    \/ \E r \in DOMAIN inflight : TsRespond(r)
    \/ \E c \in RegistryConns : CloseEvent(c)
    \/ StopCall
    \/ StopWatcherClosed
    \/ StopHttpClosed

SpecRegistry == Init /\ [][NextRegistry]_vars

\* the registry alone: a started server, the watcher and typed-script requests
NextModules ==
    \/ Start
    \/ Listening
    \/ \E f \in WatchedFiles : EditFile(f)
    \/ \E f \in WatchedFiles : FileChange(f)
    \/ \E u \in TsUrls : TsRequest(u)
    \/ \E r \in DOMAIN inflight : TsRespond(r)
    \/ \E r \in DOMAIN inflight : TsFail(r)

SpecModules == Init /\ [][NextModules]_vars

\* ------------------------------------------------------------ paths
\* the segments of a path: its tokens without the separators
Segments(s) == SelectSeq(s, LAMBDA t : t # "/")

\* path normalisation of an absolute path: "." is dropped, ".." removes the
\* segment before it and is dropped at the top
RECURSIVE NormalizeSegs(_, _)
NormalizeSegs(todo, done) ==
    IF todo = <<>> THEN done
    ELSE IF Head(todo) = "." THEN NormalizeSegs(Tail(todo), done)
    ELSE IF Head(todo) = ".."
         THEN NormalizeSegs(Tail(todo),
                            IF done = <<>> THEN <<>> ELSE SubSeq(done, 1, Len(done) - 1))
    ELSE NormalizeSegs(Tail(todo), Append(done, Head(todo)))

RECURSIVE Render(_)
Render(segs) == IF segs = <<>> THEN <<>> ELSE <<"/", Head(segs)>> \o Render(Tail(segs))

AbsPath(segs) == IF segs = <<>> THEN <<"/">> ELSE Render(segs)

\* path.join(dir, rel) and path.resolve(dir, rel) for an absolute dir and a relative rel
PathJoin(dir, rel) == AbsPath(NormalizeSegs(Segments(dir) \o Segments(rel), <<>>))

RECURSIVE CommonLen(_, _)
CommonLen(a, b) == IF a = <<>> \/ b = <<>> \/ Head(a) # Head(b) THEN 0
                   ELSE 1 + CommonLen(Tail(a), Tail(b))

\* path.relative(from, to), as segments
PathRelative(from, to) ==
    LET f == Segments(from)
        t == Segments(to)
        n == CommonLen(f, t)
    IN [i \in 1..(Len(f) - n) |-> ".."] \o SubSeq(t, n + 1, Len(t))

\* relative(dir, path).startsWith('..')
EscapesDir(dir, path) ==
    LET rel == PathRelative(dir, path) IN rel # <<>> /\ Head(rel) = ".."

\* path.extname of a name
ExtOf(name) ==
    CASE name = "index.html" -> ".html"
      [] name = "main.ts" -> ".ts"
      [] name = "style.css" -> ".css"
      [] name = "secret.txt" -> ".txt"
      [] name = "logo.png" -> ".png"
      [] name = "index.js" -> ".js"
      [] name = "package.json" -> ".json"
      [] name \in {"util.ts", "page.ts", "view.ts", "pair.ts"} -> ".ts"
      [] name = "view.tsx" -> ".tsx"
      [] name \in {"view.js", "data.js", "pair.js"} -> ".js"
      [] OTHER -> ""

extname(path) ==
    LET segs == Segments(path) IN IF segs = <<>> THEN "" ELSE ExtOf(segs[Len(segs)])

\* ------------------------------------------------------------ the file system
PublicDir == Root \o <<"/", "public">>

OutsideFile == <<"/", "srv", "/", "secret.txt">>

FsFiles ==
    {OutsideFile,
     Root \o <<"/", "index.html">>, Root \o <<"/", "main.ts">>, Root \o <<"/", "style.css">>,
     Root \o <<"/", "api", "/", "v2">>,
     Root \o <<"/", "src", "/", "page.ts">>, Root \o <<"/", "util.ts">>,
     Root \o <<"/", "view.tsx">>, Root \o <<"/", "view.ts">>, Root \o <<"/", "view.js">>,
     Root \o <<"/", "data.js">>, Root \o <<"/", "pair.ts">>, Root \o <<"/", "pair.js">>,
     Root \o <<"/", "src", "/", "view.js">>,
     Root \o <<"/", "node_modules", "/", "lib", "/", "package.json">>,
     Root \o <<"/", "node_modules", "/", "lib", "/", "index.js">>}
    \cup (IF publicKind = "dir"
          THEN {PublicDir \o <<"/", "logo.png">>, PublicDir \o <<"/", "main.ts">>,
                PublicDir \o <<"/", "index.html">>}
          ELSE {})
    \cup (IF publicKind = "file" THEN {PublicDir} ELSE {})

FsDirs ==
    {<<"/">>, <<"/", "srv">>, Root, Root \o <<"/", "docs">>, Root \o <<"/", "api">>,
     Root \o <<"/", "src">>,
     Root \o <<"/", "node_modules">>, Root \o <<"/", "node_modules", "/", "lib">>}
    \cup (IF publicKind = "dir" THEN {PublicDir} ELSE {})

existsSync(path) == path \in FsFiles \cup FsDirs

isFile(path) == path \in FsFiles

\* what reading a file can end in: the content, or an error
ReadOutcomes(path) ==
    IF path \in FsFiles THEN {"ok", "EACCES"}
    ELSE IF path \in FsDirs THEN {"EISDIR"}
    ELSE {"ENOENT"}

\* ------------------------------------------------------------ configuration of the router
TokLen(t) ==
    CASE t = "/" -> 1
      [] t = "api" -> 3
      [] t = "v2" -> 2
      [] OTHER -> 4

RECURSIVE StrLen(_)
StrLen(s) == IF s = <<>> THEN 0 ELSE TokLen(Head(s)) + StrLen(Tail(s))

\* a normalisation that keeps the rules in the order they were given
SortRules_AsGiven(rules) == rules

\* Array.prototype.sort by descending path length (a stable sort)
RECURSIVE SortRules(_)
SortRules(rules) ==
    IF rules = <<>> THEN <<>>
    ELSE LET m == CHOOSE i \in DOMAIN rules :
                     /\ \A j \in DOMAIN rules : StrLen(rules[j].path) <= StrLen(rules[i].path)
                     /\ \A j \in 1..(i - 1) : StrLen(rules[j].path) < StrLen(rules[i].path)
         IN <<rules[m]>> \o SortRules(SubSeq(rules, 1, m - 1) \o SubSeq(rules, m + 1, Len(rules)))

normalizeProxy(proxy) ==
    SortRules([i \in DOMAIN proxy |->
        [path |-> IF StartsWith(proxy[i].path, <<"/">>) THEN proxy[i].path
                  ELSE <<"/">> \o proxy[i].path,
         target |-> IF proxy[i].target # <<>> /\ proxy[i].target[Len(proxy[i].target)] = "/"
                    THEN SubSeq(proxy[i].target, 1, Len(proxy[i].target) - 1)
                    ELSE proxy[i].target]])

\* the proxy option of the constructor
ProxyOptions ==
    {<<>>,
     <<[path |-> <<"api">>, target |-> <<"http://one">>],
       [path |-> <<"/", "api", "/", "v2">>, target |-> <<"http://two", "/">>]>>}

EnvPrefixes == {"null", "PUBLIC_", ""}

PublicKinds == {"absent", "dir", "file"}

InitRouter ==
    /\ InitServer
    /\ InitRequest
    /\ NoTransform
    /\ SilentOptions
    /\ proxyRules \in {normalizeProxy(o) : o \in ProxyOptions}
    /\ envPrefix \in EnvPrefixes
    /\ publicKind \in PublicKinds
    /\ page = NoPage
    /\ LoadPage

\* ------------------------------------------------------------ requests
Segs == {"..", "app", "index.html", "main.ts", "style.css", "secret.txt", "docs",
         "api", "@env", "@hmr-client", "@node_modules"}

RECURSIVE SegSeqs(_)
SegSeqs(n) == IF n = 0 THEN {<<>>}
              ELSE LET shorter == SegSeqs(n - 1)
                   IN shorter \cup {Append(q, x) : q \in {y \in shorter : Len(y) = n - 1}, x \in Segs}

Pathnames == {AbsPath(q) : q \in SegSeqs(MaxSegs)}

\* the request URLs: every pathname, and the short ones with a query as well
\* longer paths the router has a case for
DeepUrls ==
    {AbsPath(q) : q \in
        {<<"@node_modules", "lib", "index.js">>, <<"app", "@node_modules", "lib", "index.js">>,
         <<"@node_modules", "lib", "..", "..", "main.ts">>,
         <<"app", "..", "..", "secret.txt">>, <<"app", "api", "v2">>, <<"api", "v2">>,
         <<"app", "logo.png">>, <<"logo.png">>, <<"@node_modules", "lib">>}}

\* paths that end with the separator: the base root and directories
SlashUrls ==
    {AbsPath(q) \o <<"/">> : q \in {<<"app">>, <<"docs">>, <<"app", "docs">>, <<"src">>}}
        \cup {<<"/", "app", "/", "?", "foo=1">>}

RequestUrls ==
    Pathnames \cup DeepUrls \cup SlashUrls
        \cup {p \o <<"?", "foo=1">> : p \in {q \in Pathnames : Len(q) <= 2}}
        \cup {p \o <<"?", "next=a", "?", "b=1">> : p \in {<<"/", "api">>, <<"/", "app", "/", "api">>}}

\* url.split('?')
PathnameOf(url) == LET i == IndexOf(url, <<"?">>) IN IF i = 0 THEN url ELSE SubSeq(url, 1, i - 1)

\* the second element of url.split('?'): what lies between the first '?' and the next
SearchOf(url) == LET i == IndexOf(url, <<"?">>) IN IF i = 0 THEN <<>> ELSE PathnameOf(Slice(url, i))

\* pathnameForLookup
LookupOf(pathname) ==
    IF basePrefix # <<>>
    THEN (IF Slice(pathname, Len(basePrefix)) = <<>> THEN <<"/">>
          ELSE Slice(pathname, Len(basePrefix)))
    ELSE pathname

\* ------------------------------------------------------------ what a handler produces
\* thrown is the message of the error the handler throws, "" when it returns
Result(status, kind, arg, file, by) ==
    [status |-> status, kind |-> kind, arg |-> arg, file |-> file, source |-> <<>>, by |-> by,
     thrown |-> ""]

Thrown(msg, by) ==
    [status |-> 0, kind |-> "none", arg |-> <<>>, file |-> <<>>, source |-> <<>>, by |-> by,
     thrown |-> msg]

\* the handler returns false: it has written nothing
ReturnsFalse == Result(0, "false", <<>>, <<>>, "")

redirect(location) == Result(302, "redirect", location, <<>>, "redirect")

\* a default document that is not put under the base
IndexLocation_NoBase == <<"/", "index.html">>

\* this.base + 'index.html'
IndexLocation == Base \o <<"index.html">>

\* ---- listVisitablePaths
\* readdir(dir): the entries directly inside a directory
Entries(dir) ==
    {p \in FsFiles \cup FsDirs : Len(p) = Len(dir) + 2 /\ StartsWith(p, dir \o <<"/">>)}

\* the names the listing of the root passes over
SkipNames == {"node_modules", ".git", "dist", "public"}

\* e.name.startsWith('.')
IsDotName(name) == name \in {".git", ".env", ".env.local"}

\* the paths pushed for the entries of the root: '/name' for a file, '/name/' for a directory
RootPaths ==
    {IF isFile(e) THEN <<"/", Last(e)>> ELSE <<"/", Last(e), "/">> :
        e \in {x \in Entries(Root) : Last(x) \notin SkipNames /\ ~IsDotName(Last(x))}}

\* the walk of public/: '/' + the path inside public/ of every file below it
PublicPaths ==
    IF existsSync(PublicDir)
    THEN {Slice(f, Len(PublicDir)) : f \in {x \in FsFiles : StartsWith(x, PublicDir \o <<"/">>)}}
    ELSE {}

\* listVisitablePaths: the paths listed, each under the base prefix (their
\* order, by localeCompare, and their repetitions are not kept)
listVisitablePaths == {basePrefix \o p : p \in RootPaths \cup PublicPaths}

\* serve404: the page shows the path and a link for each listed path; the
\* listing walks public/ when it exists, and the readdir there is not guarded
serve404(pathname, by) ==
    IF existsSync(PublicDir) /\ PublicDir \notin FsDirs
    THEN Thrown("ENOTDIR", by)
    ELSE Result(404, "notFound", [path |-> pathname, links |-> listVisitablePaths], <<>>, by)

serveHMRClient == Result(200, "hmrClient", <<>>, <<>>, "hmrClient")

\* ---- serveEnv
\* a variable name is the sequence of its parts, a prefix is one part or nothing
PrefixOf(prefix) == IF prefix = "" THEN <<>> ELSE <<prefix>>

\* the lines of an env file: key, '=' and the raw value; a comment or a line
\* without '=' has no key
EnvLine(key, raw) == [key |-> key, raw |-> raw]

CommentLine == EnvLine(<<>>, <<"#", "SECRET_", "KEY", "=", "s3cret">>)

\* what .env and .env.local can be: absent, unreadable, or some lines
EnvFile(state, lines) == [state |-> state, lines |-> lines]

EnvFileStates ==
    {EnvFile("absent", <<>>),
     EnvFile("unreadable", <<EnvLine(<<"PUBLIC_", "API">>, <<"v0">>)>>),
     EnvFile("ok", <<CommentLine,
                     EnvLine(<<"PUBLIC_", "API">>, <<"v1">>),
                     EnvLine(<<"SECRET_", "KEY">>, <<"s3cret">>)>>),
     EnvFile("ok", <<EnvLine(<<"PUBLIC_", "API">>, <<"\"", "v2", "\"">>),
                     EnvLine(<<"MY_", "PUBLIC_", "X">>, <<"'", "hidden", "'">>)>>)}

EnvFileSets == [env : EnvFileStates, local : EnvFileStates]

\* the quotes around a value are removed
Unquote(raw) ==
    IF Len(raw) >= 2 /\ raw[1] = raw[Len(raw)] /\ raw[1] \in {"\"", "'"}
    THEN SubSeq(raw, 2, Len(raw) - 1) ELSE raw

\* out[key] = value on an object: a present key keeps its place
Put(obj, key, value) ==
    IF \E i \in DOMAIN obj : obj[i].key = key
    THEN [i \in DOMAIN obj |-> IF obj[i].key = key THEN [key |-> key, value |-> value] ELSE obj[i]]
    ELSE Append(obj, [key |-> key, value |-> value])

\* parseEnvString and the merge loop: the pairs of the lines are put into merged
RECURSIVE MergeLines(_, _)
MergeLines(lines, merged) ==
    IF lines = <<>> THEN merged
    ELSE MergeLines(Tail(lines),
                    IF Head(lines).key = <<>> THEN merged
                    ELSE Put(merged, Head(lines).key, Unquote(Head(lines).raw)))

\* a loadPublicEnv that returns everything it merged
loadPublicEnv_NoFilter(files, prefix) ==
    LET read(f, merged) == IF f.state = "ok" THEN MergeLines(f.lines, merged) ELSE merged
    IN read(files.local, read(files.env, <<>>))

\* loadPublicEnv: .env, then .env.local over it; a missing or unreadable
\* file is skipped; the keys that start with the prefix are kept
loadPublicEnv(files, prefix) ==
    LET read(f, merged) == IF f.state = "ok" THEN MergeLines(f.lines, merged) ELSE merged
        merged == read(files.local, read(files.env, <<>>))
    IN IF prefix = "" THEN merged
       ELSE SelectSeq(merged, LAMBDA kv : StartsWith(kv.key, PrefixOf(prefix)))

\* a serveEnv that loads the files for every request
EnvAfter_AlwaysReload(files) == loadPublicEnv(files, envPrefix)

\* serveEnv: the variables are loaded while none is held, and answered
EnvAfter(files) == IF publicEnv = <<>> THEN loadPublicEnv(files, envPrefix) ELSE publicEnv

serveEnv(files) ==
    [Result(200, "env", EnvAfter(files), <<>>, "env") EXCEPT !.source = files]

\* ---- serveHtml
\* an HTML document is the sequence of its tags; these are the ones serveHtml looks at
HmrScriptTags ==
    {"<script src=/@hmr-client>", "<script src=@hmr-client>", "<script src=/app/@hmr-client>"}

\* what html.includes('@hmr-client') finds
HmrMentions == HmrScriptTags \cup {"<!-- @hmr-client -->"}

BaseTags == {"<base href=/app/>", "<base href=/other/>"}

\* what an .html file can hold
HtmlSources ==
    {<<"<html>", "<head>", "<link href=/style.css>", "</head>", "<body>", "</html>">>,
     <<"<html>", "<body>", "</html>">>,
     <<"<h1>">>,
     <<"<html>", "<head>", "<script src=/@hmr-client>", "</head>", "</html>">>,
     <<"<html>", "<head>", "<base href=/other/>", "</head>", "<!-- @hmr-client -->", "</html>">>}

Includes(html, tags) == \E i \in DOMAIN html : html[i] \in tags

\* the tag serveHtml injects: its src is this.base + '@hmr-client'
hmrScript == IF Base = <<>> THEN "<script src=@hmr-client>" ELSE "<script src=/app/@hmr-client>"

\* html.replace(absPathRe, ...): an absolute href or src not yet under the base is put under it
Rebase(html) ==
    [i \in DOMAIN html |->
        CASE html[i] = "<script src=/@hmr-client>" -> "<script src=/app/@hmr-client>"
          [] html[i] = "<link href=/style.css>" -> "<link href=/app/style.css>"
          [] html[i] = "<base href=/other/>" -> "<base href=/app/other/>"
          [] OTHER -> html[i]]

\* the body serveHtml answers for the content it read
serveHtmlBody(source) ==
    LET withBase == IF Base = <<>> THEN source
                    ELSE Rebase(IF ~Includes(source, BaseTags)
                                THEN ReplaceFirst(source, <<"<head>">>,
                                                  <<"<head>", "<base href=/app/>">>)
                                ELSE source)
    IN IF ~Includes(withBase, HmrMentions) /\ ~Includes(withBase, {"</head>"})
       THEN ReplaceFirst(withBase, <<"</html>">>, <<hmrScript, "</html>">>)
       ELSE IF ~Includes(withBase, HmrMentions)
       THEN ReplaceFirst(withBase, <<"</head>">>, <<hmrScript, "</head>">>)
       ELSE withBase

\* handlers that look for a regular file and answer the 404 page for a directory
FileHandler_FilesOnly(by, url) ==
    LET filePath == PathJoin(Root, Slice(url, 1))
    IN IF ~isFile(filePath) THEN {serve404(url, by)}
       ELSE {IF o = "ok" THEN Result(200, "file", filePath, filePath, by) ELSE Thrown(o, by)
               : o \in ReadOutcomes(filePath)}

\* serveHtml, serveTypeScript, serveCss, serveStatic: the file under the root is
\* read and answered; by names the handler
FileHandler(by, url) ==
    LET filePath == PathJoin(Root, Slice(url, 1))
    IN IF ~existsSync(filePath) THEN {serve404(url, by)}
       ELSE IF by = "html" /\ "ok" \in ReadOutcomes(filePath)
       THEN {[Result(200, "html", serveHtmlBody(source), filePath, by) EXCEPT !.source = source]
               : source \in HtmlSources}
            \cup {Thrown(o, by) : o \in ReadOutcomes(filePath) \ {"ok"}}
       ELSE {IF o = "ok" THEN Result(200, "file", filePath, filePath, by) ELSE Thrown(o, by)
               : o \in ReadOutcomes(filePath)}
            \cup (IF by = "typeScript" /\ "ok" \in ReadOutcomes(filePath)
                  THEN {Thrown("TransformError", by)} ELSE {})

\* the dispatch by extension inside the try block
ExtensionHandler(url) ==
    LET ext == extname(url)
    IN IF ext = ".html" THEN FileHandler("html", url)
       ELSE IF ext \in {".ts", ".tsx"} THEN FileHandler("typeScript", url)
       ELSE IF ext = ".css" THEN FileHandler("css", url)
       ELSE FileHandler("static", url)

\* a router without the public step
servePublic_Never(pathname) == {ReturnsFalse}

\* servePublic: the traversal check, then an unguarded read
servePublic(pathname) ==
    LET filePath == PathJoin(PublicDir, Slice(pathname, 1))
    IN IF ~existsSync(PublicDir) THEN {ReturnsFalse}
       ELSE IF EscapesDir(PublicDir, filePath) THEN {ReturnsFalse}
       ELSE IF ~existsSync(filePath) THEN {ReturnsFalse}
       ELSE IF ~isFile(filePath) THEN {ReturnsFalse}
       ELSE {IF o = "ok" THEN Result(200, "file", filePath, filePath, "public")
             ELSE Thrown(o, "public") : o \in ReadOutcomes(filePath)}

\* path.dirname of an absolute path, as segments
Dirname(segs) == SubSeq(segs, 1, Len(segs) - 1)

\* findPackageDir: the first of the root and its ancestors whose node_modules
\* holds the package; <<>> stands for null (no ancestor's package.json names
\* a package here, so the fallback walk finds nothing)
RECURSIVE WalkUp(_, _)
WalkUp(dirSegs, parts) ==
    LET nm == PathJoin(AbsPath(dirSegs), <<"node_modules">>)
        pkgDir == PathJoin(nm, Render(parts))
    IN IF existsSync(nm) /\ existsSync(PathJoin(pkgDir, <<"package.json">>)) THEN pkgDir
       ELSE IF dirSegs = <<>> THEN <<>>
       ELSE WalkUp(Dirname(dirSegs), parts)

findPackageDir(parts) == IF parts = <<>> THEN <<>> ELSE WalkUp(Segments(Root), parts)

\* String.prototype.startsWith('@') of a segment
IsScopeName(name) == name \in {"@env", "@hmr-client", "@node_modules"}

\* serveNodeModule: every failure inside it is caught and turned into false
serveNodeModule(pathname) ==
    LET parts == Segments(Slice(pathname, Len(<<"/", "@node_modules", "/">>)))
        scoped == Len(parts) >= 2 /\ IsScopeName(parts[1])
        specifier == IF scoped THEN SubSeq(parts, 1, 2) ELSE SubSeq(parts, 1, 1)
        subpath == Render(SubSeq(parts, Len(specifier) + 1, Len(parts)))
        packageRoot == findPackageDir(specifier)
        filePath == PathJoin(packageRoot, subpath)
    IN IF packageRoot = <<>> THEN {ReturnsFalse}
       ELSE IF EscapesDir(packageRoot, filePath) THEN {ReturnsFalse}
       ELSE IF ~existsSync(filePath) \/ ~isFile(filePath) THEN {ReturnsFalse}
       ELSE {IF o = "ok" THEN Result(200, "file", filePath, filePath, "nodeModule")
             ELSE ReturnsFalse : o \in ReadOutcomes(filePath)}

\* ------------------------------------------------------------ handleRequest
\* the response is written and ended, and the promise of handleRequest resolves
Respond(r) ==
    /\ resStatus' = r.status
    /\ resBody' = [kind |-> r.kind, arg |-> r.arg]
    /\ resEnded' = TRUE
    /\ resFile' = r.file
    /\ resSource' = r.source
    /\ resBy' = r.by
    /\ outcome' = "resolved"
    /\ reqPc' = "settled"

\* an error leaves handleRequest: its promise rejects and nothing is written
Reject(msg) ==
    /\ raised' = msg
    /\ outcome' = "rejected"
    /\ reqPc' = "settled"
    /\ UNCHANGED <<resStatus, resBody, resEnded, resFile, resSource, resBy>>

\* a handler called outside the try block
Unguarded(r) ==
    IF r.thrown # "" THEN Reject(r.thrown) ELSE Respond(r) /\ raised' = raised

\* a handler called inside the try block: the catch answers 500 with the message
Guarded(r) ==
    IF r.thrown # ""
    THEN /\ Respond(Result(500, "error", <<r.thrown>>, <<>>, r.by))
         /\ raised' = r.thrown
    ELSE Respond(r) /\ raised' = raised

MoveTo(pc) ==
    /\ reqPc' = pc
    /\ UNCHANGED <<resStatus, resBody, resEnded, resFile, resSource, resBy, outcome, raised>>

\* handleRequest up to the proxy step: the base path, the redirects, the
\* client-runtime and env endpoints
ReqReceive(url) ==
    /\ reqPc = "idle"
    /\ reqUrl' = url
    /\ LET pathname == PathnameOf(url)
           lookup == LookupOf(pathname)
       IN IF basePrefix # <<>> /\ pathname = <<"/">>
          THEN Unguarded(redirect(Base)) /\ UNCHANGED publicEnv
          ELSE IF basePrefix # <<>> /\ pathname = basePrefix
          THEN Unguarded(redirect(Base)) /\ UNCHANGED publicEnv
          ELSE IF basePrefix # <<>> /\ ~StartsWith(pathname, basePrefix \o <<"/">>)
          THEN Unguarded(serve404(pathname, "base")) /\ UNCHANGED publicEnv
          ELSE IF basePrefix = <<>> /\ pathname = <<"/">>
          THEN Unguarded(redirect(<<"/", "index.html">>)) /\ UNCHANGED publicEnv
          ELSE IF lookup = <<"/", "@hmr-client">>
          THEN Unguarded(serveHMRClient) /\ UNCHANGED publicEnv
          ELSE IF lookup = <<"/", "@env">> /\ envPrefix # "null"
          THEN \E files \in EnvFileSets :
                 Unguarded(serveEnv(files)) /\ publicEnv' = EnvAfter(files)
          ELSE IF lookup = <<"/">> \/ lookup = <<>>
          THEN Unguarded(redirect(IndexLocation)) /\ UNCHANGED publicEnv
          ELSE MoveTo("proxy") /\ UNCHANGED publicEnv
    /\ UNCHANGED <<serverVars, clientVars, fleetVars, tsModule, tsBody, proxyRules, envPrefix, publicKind>>

Lookup == LookupOf(PathnameOf(reqUrl))

\* proxyRules.find(...)
MatchingRules ==
    {i \in DOMAIN proxyRules :
        \/ Lookup = proxyRules[i].path
        \/ StartsWith(Lookup, proxyRules[i].path \o <<"/">>)}

\* a find that takes a rule only when the path equals its prefix
FindRule_ExactOnly ==
    LET exact == {i \in DOMAIN proxyRules : Lookup = proxyRules[i].path}
    IN IF exact = {} THEN 0 ELSE CHOOSE i \in exact : \A j \in exact : i <= j

FindRule == IF MatchingRules = {} THEN 0
            ELSE CHOOSE i \in MatchingRules : \A j \in MatchingRules : i <= j

ProxyUrl(rule) ==
    rule.target \o Lookup
        \o (IF SearchOf(reqUrl) # <<>> THEN <<"?">> \o SearchOf(reqUrl) ELSE <<>>)

UpstreamStatuses == {200, 503}

\* a catch that answers 502 with an empty body
BadGateway_NoBody == Result(502, "text", <<>>, <<>>, "proxy")

\* the catch of tryProxy: 502, text/plain, 'Bad Gateway'
BadGateway == Result(502, "text", <<"Bad Gateway">>, <<>>, "proxy")

\* tryProxy up to the upstream's answer: no rule, an unreachable upstream (502), or
\* the upstream's status relayed with res.writeHead
ReqProxy ==
    /\ reqPc = "proxy"
    /\ IF FindRule = 0 THEN MoveTo("public") /\ UNCHANGED terminal
       ELSE \E fetched \in BOOLEAN :
              IF fetched
              THEN /\ resStatus' \in UpstreamStatuses
                   /\ resBy' = "proxy"
                   /\ resBody' = [kind |-> "upstream", arg |-> ProxyUrl(proxyRules[FindRule])]
                   /\ reqPc' = "proxyBody"
                   /\ UNCHANGED <<resEnded, resFile, resSource, outcome, raised, terminal>>
              ELSE /\ log({"proxyError"})
                   /\ Respond(BadGateway)
                   /\ raised' = raised
    /\ UNCHANGED <<instanceVars, clientVars, fleetVars, tsModule, tsBody, proxyRules, envPrefix, publicEnv, publicKind, reqUrl>>

\* tryProxy after res.writeHead(proxyRes.status): the body arrives and is ended,
\* or reading it fails and the catch calls res.writeHead(502) on a response
\* whose head is written, which throws
ReqProxyBody ==
    /\ reqPc = "proxyBody"
    /\ \E arrived \in BOOLEAN :
          IF arrived
          THEN /\ resEnded' = TRUE
               /\ log({"proxy"})
               /\ outcome' = "resolved"
               /\ reqPc' = "settled"
               /\ UNCHANGED <<resStatus, resBody, resFile, resSource, resBy, raised>>
          ELSE log({"proxyError"}) /\ Reject("ERR_HTTP_HEADERS_SENT")
    /\ UNCHANGED <<instanceVars, clientVars, fleetVars, tsModule, tsBody, proxyRules, envPrefix, publicEnv, publicKind, reqUrl>>

\* servePublic, called outside the try block
ReqPublic ==
    /\ reqPc = "public"
    /\ \E r \in servePublic(Lookup) :
          IF r = ReturnsFalse
          THEN MoveTo(IF StartsWith(Lookup, <<"/", "@node_modules", "/">>)
                      THEN "nodeModule" ELSE "ext")
          ELSE Unguarded(r)
    /\ UNCHANGED <<serverVars, clientVars, fleetVars, tsModule, tsBody, proxyRules, envPrefix, publicEnv, publicKind, reqUrl>>

\* serveNodeModule for a path under /@node_modules/
ReqNodeModule ==
    /\ reqPc = "nodeModule"
    /\ \E r \in serveNodeModule(Lookup) :
          IF r = ReturnsFalse THEN MoveTo("ext") ELSE Unguarded(r)
    /\ UNCHANGED <<serverVars, clientVars, fleetVars, tsModule, tsBody, proxyRules, envPrefix, publicEnv, publicKind, reqUrl>>

\* the try block: the handler chosen by the extension, and the catch
ReqExtension ==
    /\ reqPc = "ext"
    /\ \E r \in ExtensionHandler(Lookup) :
          /\ Guarded(r)
          /\ IF r.thrown # "" THEN log({"error"}) ELSE UNCHANGED terminal
          /\ IF r.by = "typeScript" /\ r.status = 200
             THEN \E t1 \in now..MaxTime : \E t2 \in t1..MaxTime :
                    /\ DateNow(t2)
                    /\ LET transformed == [src |-> disk[r.file], t |-> t1]
                           record == [code |-> transformed, timestamp |-> t2, url |-> Lookup]
                       IN moduleGraph' = [u \in DOMAIN moduleGraph \cup {Lookup} |->
                                            IF u = Lookup THEN record ELSE moduleGraph[u]]
             ELSE UNCHANGED <<moduleGraph, now>>
    /\ UNCHANGED <<basePrefix, clients, httpServer, wss, watcher, startPc, startValue, stopPc, wsState, inbox,
                   disk, pending, inflight, sent, lastChange, stopTrace, served, silent, verbose,
                   clientVars, fleetVars, tsModule, tsBody, proxyRules, envPrefix, publicEnv, publicKind, reqUrl>>

NextRequest ==
    \/ \E url \in RequestUrls : ReqReceive(url)
    \/ ReqProxy
    \/ ReqProxyBody
    \/ ReqPublic
    \/ ReqNodeModule
    \/ ReqExtension

SpecRequest == InitRouter /\ [][NextRequest]_vars

\* C1: no file handler answers with a file outside the served root (outside
\* public/ for the public handler), and a request whose path escapes is
\* answered 404.
FileHandlers == {"html", "typeScript", "css", "static", "public"}

IsWithin(dir, path) == path = dir \/ StartsWith(path, dir \o <<"/">>)

LookupEscapes == EscapesDir(Root, PathJoin(Root, Slice(Lookup, 1)))

C1_NoEscapeFromRoot ==
    reqPc = "settled" /\ resBy \in FileHandlers =>
        /\ resFile # <<>> => IsWithin(IF resBy = "public" THEN PublicDir ELSE Root, resFile)
        /\ LookupEscapes /\ raised = "" => resStatus = 404

\* C2: an error that leaves any step of the router is answered 500 with the
\* error's message, and the promise of handleRequest never rejects.
C2_ErrorsBecome500 ==
    /\ outcome # "rejected"
    /\ reqPc = "settled" /\ raised # "" =>
          resStatus = 500 /\ resBody = [kind |-> "error", arg |-> <<raised>>]

\* C3: a request that handleRequest has finished with has its status line
\* written once and its body ended.
C3_OneResponse ==
    reqPc = "settled" => resStatus # 0 /\ resEnded

\* the client-runtime script tags of an HTML body
CountTags(html) == Cardinality({i \in DOMAIN html : html[i] \in HmrScriptTags})

\* C15: every 200 response for an .html request contains exactly one
\* client-runtime script tag, whatever the source holds.
C15_OneRuntimeTag ==
    reqPc = "settled" /\ resBy = "html" /\ resStatus = 200 => CountTags(resBody.arg) = 1

\* the lines of the env files that were read
SourceLines ==
    UNION {{f.lines[i] : i \in DOMAIN f.lines} :
              f \in {g \in {resSource.env, resSource.local} : g.state = "ok"}}

\* the variables among them whose name lacks the prefix
Unexposed == {l \in SourceLines : l.key # <<>> /\ ~StartsWith(l.key, PrefixOf(envPrefix))}

\* C16: the body of the env endpoint holds only variables whose name starts
\* with the configured prefix; of a variable whose name does not, neither
\* the name nor the value is in the body.
C16_OnlyPrefixedVariables ==
    reqPc = "settled" /\ resBy = "env" =>
        /\ resStatus = 200
        /\ \A i \in DOMAIN resBody.arg : StartsWith(resBody.arg[i].key, PrefixOf(envPrefix))
        /\ \A l \in Unexposed : \A i \in DOMAIN resBody.arg :
              resBody.arg[i].key # l.key /\ resBody.arg[i].value # Unquote(l.raw)

C16_Witness ==
    /\ reqPc = "settled"
    /\ resBy = "env"
    /\ envPrefix = "PUBLIC_"
    /\ Unexposed # {}
    /\ resBody.arg # <<>>

\* ------------------------------------------------------------ client runtime
\* '?t=' + timestamp, in two tokens
StampOf(t) == <<"?", "t=" \o ToString(t)>>

StampToks == {"t=" \o ToString(t) : t \in 0..MaxTime}

HmrClientSrc == <<"/", "@hmr-client">>

EntrySrc == <<"/", "main.ts">>

\* the pages the runtime can be loaded in: their module scripts and stylesheet links
Pages ==
    {[scripts |-> <<HmrClientSrc>>, links |-> <<>>],
     [scripts |-> <<HmrClientSrc, EntrySrc>>,
      links |-> <<<<"/", "style.css">>, <<"/", "other.css">>, <<"/", "style.css", "?", "v=1">>>>],
     [scripts |-> <<EntrySrc \o StampOf(0)>>, links |-> <<<<"/", "style.css">>>>]}

\* the modules that can call accept, and the paths update messages name
ClientUrls == {<<"/", "main.ts">>, <<"/", "util.ts">>}

MessagePaths == {<<"/", "main.ts">>, <<"util.ts">>, <<"/", "style.css">>}

\* what a message event can carry: the server's update messages, another
\* message type, and text that is not JSON
Messages ==
    [type : {"update"}, path : MessagePaths, timestamp : 0..MaxTime]
        \cup {[type |-> "connected", path |-> <<>>, timestamp |-> 0],
              [type |-> "malformed", path |-> <<>>, timestamp |-> 0]}

\* a callback registered with accept returns or throws an Error; accept
\* without a callback registers undefined, and calling that is a TypeError.
\* What a rejected import throws is an Error or, rarely, a callable value
CallbackKinds == {"returns", "throwsError", "undefined"}

ThrownKinds == {"error", "function"}

InitClient == page \in Pages /\ LoadPage

\* a getEntryUrl that takes the first module script whatever it is
FirstEntry_AnyScript(scripts) == IF scripts = <<>> THEN <<>> ELSE PathnameOf(Head(scripts))

\* getEntryUrl: the pathname of the first module script that is not the runtime
RECURSIVE FirstEntry(_)
FirstEntry(scripts) ==
    IF scripts = <<>> THEN <<>>
    ELSE IF IndexOf(Head(scripts), <<"@hmr-client">>) = 0 THEN PathnameOf(Head(scripts))
    ELSE FirstEntry(Tail(scripts))

getEntryUrl == FirstEntry(page.scripts)

\* /\.css(\?|$)/.test(url)
IsCssUrl(url) ==
    \E i \in DOMAIN url : ExtOf(url[i]) = ".css" /\ (i = Len(url) \/ url[i + 1] = "?")

\* href.replace(/[?&]t=\d+/, '')
RemoveStamp(href) ==
    LET at == {i \in 1..(Len(href) - 1) : href[i] \in {"?", "&"} /\ href[i + 1] \in StampToks}
    IN IF at = {} THEN href
       ELSE LET i == CHOOSE k \in at : \A j \in at : k <= j
            IN SubSeq(href, 1, i - 1) \o SubSeq(href, i + 2, Len(href))

\* .replace(/([?&])$/, '')
RemoveTrailingSep(href) ==
    IF href # <<>> /\ href[Len(href)] \in {"?", "&"} THEN SubSeq(href, 1, Len(href) - 1) ELSE href

\* the href a matching stylesheet link is given
Restamp(href, timestamp) ==
    RemoveTrailingSep(RemoveStamp(href))
        \o <<IF IndexOf(href, <<"?">>) # 0 THEN "&" ELSE "?", "t=" \o ToString(timestamp)>>

\* a variant that stops at the first matching link
RewriteLinks_FirstOnly(hrefs, pathPart, timestamp) ==
    [i \in DOMAIN hrefs |->
        IF IndexOf(hrefs[i], pathPart) # 0
           /\ \A j \in 1..(i - 1) : IndexOf(hrefs[j], pathPart) = 0
        THEN Restamp(hrefs[i], timestamp) ELSE hrefs[i]]

\* the loop over the stylesheet links: every link whose href includes the path
\* is given a new href
RewriteLinks(hrefs, pathPart, timestamp) ==
    [i \in DOMAIN hrefs |->
        IF IndexOf(hrefs[i], pathPart) # 0 THEN Restamp(hrefs[i], timestamp) ELSE hrefs[i]]

\* the err(...) call of a catch block, whose parameter is named err as well: it
\* calls the caught value, which succeeds only for a callable one
CallErr(caught) == caught = "function"

\* how the handler ends once something is thrown inside the inner try block;
\* a failed err(...) call is a TypeError, thrown again by the outer catch
AfterThrow(caught) ==
    IF CallErr(caught)
    THEN [threw |-> TRUE, reloaded |-> TRUE, rejected |-> FALSE]
    ELSE [threw |-> TRUE, reloaded |-> FALSE, rejected |-> ~CallErr("error")]

\* the handler ends: its promise settles
Finish(run) ==
    /\ lastRun' = run
    /\ reloadRequested' = (reloadRequested \/ run.reloaded)
    /\ cliPc' = "idle"

\* the origin of the page, one token
Origin == "http://localhost:3000"

\* import.meta.url of the modules the server sends: the origin, the path and,
\* for a module imported through a rewritten import, the stamp
ModuleUrls ==
    {<<Origin>> \o p : p \in ClientUrls} \cup {<<Origin, "/", "main.ts">> \o StampOf(0)}

\* the dependency specifiers a module passes to accept
DepSpecs == {<<".", "/", "util.ts">>, <<"/", "util.ts">>}

\* the first argument of accept: nothing, a function, a string, an array
DepsArgs ==
    {[kind |-> "none", deps |-> <<>>], [kind |-> "function", deps |-> <<>>],
     [kind |-> "array", deps |-> <<<<"/", "style.css">>>>]}
        \cup {[kind |-> "string", deps |-> <<d>>] : d \in DepSpecs}

\* a path as its segments, the empty ones included: '//' is <<"", "">>
RECURSIVE SlashSegments(_)
SlashSegments(s) ==
    IF s = <<>> THEN <<>>
    ELSE IF Head(s) # "/" THEN <<Head(s)>> \o SlashSegments(Tail(s))
    ELSE IF Len(s) >= 2 /\ s[2] # "/" THEN <<s[2]>> \o SlashSegments(Slice(s, 2))
    ELSE <<"">> \o SlashSegments(Tail(s))

RECURSIVE SlashRender(_)
SlashRender(segs) ==
    IF segs = <<>> THEN <<>>
    ELSE <<"/">> \o (IF Head(segs) = "" THEN <<>> ELSE <<Head(segs)>>) \o SlashRender(Tail(segs))

\* moduleUrl.replace(/[^/]+$/, ''): what follows the last '/' is dropped
RECURSIVE DropLastName(_)
DropLastName(s) ==
    IF s = <<>> \/ s[Len(s)] = "/" THEN s ELSE DropLastName(SubSeq(s, 1, Len(s) - 1))

\* the path of new URL(dep, base): dot segments of dep are resolved against
\* the directory of base, an absolute dep replaces the path
RECURSIVE ResolveDots(_, _)
ResolveDots(todo, done) ==
    IF todo = <<>> THEN done
    ELSE IF Head(todo) = "." THEN ResolveDots(Tail(todo), done)
    ELSE IF Head(todo) = ".."
         THEN ResolveDots(Tail(todo), IF done = <<>> THEN <<>> ELSE SubSeq(done, 1, Len(done) - 1))
    ELSE ResolveDots(Tail(todo), Append(done, Head(todo)))

UrlPathname(dep, base) ==
    LET basePath == SlashSegments(Tail(base))
        dir == SubSeq(basePath, 1, Len(basePath) - 1)
    IN IF StartsWith(dep, <<"/">>) THEN SlashRender(ResolveDots(SlashSegments(dep), <<>>))
       ELSE SlashRender(ResolveDots(Segments(dep), dir))

\* resolvePath(moduleUrl, dep)
resolvePath(moduleUrl, dep) == UrlPathname(dep, DropLastName(moduleUrl) \o <<"/">>)

\* the keys accept registers the callback under
AcceptKeys(moduleUrl, arg) ==
    IF arg.kind \in {"string", "array"}
    THEN {resolvePath(moduleUrl, arg.deps[i]) : i \in DOMAIN arg.deps}
    ELSE {moduleUrl}

\* window.__MINI_DEV_HOT__(moduleUrl).accept(deps, callback): a module calls it
\* while it is evaluated; with a function as first argument that is the callback
HotAccept(moduleUrl, arg, cb) ==
    /\ ~reloadRequested
    /\ arg.kind = "function" => cb # "undefined"
    /\ arg.kind = "none" => cb = "undefined"
    /\ SumOver([u \in DOMAIN acceptors |-> Len(acceptors[u])], DOMAIN acceptors) < MaxCallbacks
    /\ LET keys == AcceptKeys(moduleUrl, arg)
       IN acceptors' = [u \in DOMAIN acceptors \cup keys |->
                          IF u \in keys
                          THEN Append(IF u \in DOMAIN acceptors THEN acceptors[u] ELSE <<>>, cb)
                          ELSE acceptors[u]]
    /\ UNCHANGED <<serverVars, reqVars, fleetVars, page, links, cliPc, cliMsg, imported, lastRun,
                   reloadRequested, dispatch, calls>>

\* socket.onmessage up to its first await
OnMessage(data) ==
    /\ cliPc = "idle"
    /\ ~reloadRequested
    /\ cliMsg' = data
    /\ calls' = <<>>
    /\ LET url == IF StartsWith(data.path, <<"/">>) THEN data.path ELSE <<"/">> \o data.path
           fullUrl == PathnameOf(url) \o StampOf(data.timestamp)
       IN IF data.type = "malformed"
          THEN /\ Finish([threw |-> FALSE, reloaded |-> FALSE, rejected |-> ~CallErr("error")])
               /\ dispatch' = [branch |-> "malformed", keys |-> DOMAIN acceptors]
               /\ imported' = <<>>
               /\ UNCHANGED links
          ELSE IF data.type # "update"
          THEN /\ Finish(NoRun)
               /\ dispatch' = [branch |-> "ignored", keys |-> DOMAIN acceptors]
               /\ imported' = <<>>
               /\ UNCHANGED links
          ELSE IF IsCssUrl(url)
          THEN /\ links' = RewriteLinks(links, PathnameOf(url), data.timestamp)
               /\ Finish(NoRun)
               /\ dispatch' = [branch |-> "css", keys |-> DOMAIN acceptors]
               /\ imported' = <<>>
          ELSE IF url \in DOMAIN acceptors /\ Len(acceptors[url]) > 0
          THEN /\ imported' = fullUrl
               /\ cliPc' = "importModule"
               /\ dispatch' = [branch |-> "acceptors", keys |-> DOMAIN acceptors]
               /\ UNCHANGED <<links, lastRun, reloadRequested>>
          ELSE IF getEntryUrl # <<>>
          THEN /\ imported' = PathnameOf(getEntryUrl) \o StampOf(data.timestamp)
               /\ cliPc' = "importEntry"
               /\ dispatch' = [branch |-> "entry", keys |-> DOMAIN acceptors]
               /\ UNCHANGED <<links, lastRun, reloadRequested>>
          ELSE /\ Finish([threw |-> FALSE, reloaded |-> TRUE, rejected |-> FALSE])
               /\ dispatch' = [branch |-> "reload", keys |-> DOMAIN acceptors]
               /\ imported' = <<>>
               /\ UNCHANGED links
    /\ UNCHANGED <<serverVars, reqVars, fleetVars, page, acceptors>>

\* the first callback of the list that throws, 0 if none does
FirstThrowing(list) ==
    LET at == {i \in DOMAIN list : list[i] # "returns"}
    IN IF at = {} THEN 0 ELSE CHOOSE k \in at : \A j \in at : k <= j

\* the import of the changed module fulfils and the callbacks run in order
ImportFulfilled ==
    /\ cliPc \in {"importModule", "importEntry"}
    /\ LET url == IF StartsWith(cliMsg.path, <<"/">>) THEN cliMsg.path ELSE <<"/">> \o cliMsg.path
           list == IF cliPc = "importModule" THEN acceptors[url] ELSE <<>>
           k == FirstThrowing(list)
       IN IF k = 0 THEN Finish(NoRun) /\ calls' = list
          ELSE /\ Finish(AfterThrow("error"))
               /\ calls' = SubSeq(list, 1, k)
    /\ UNCHANGED <<serverVars, reqVars, fleetVars, page, acceptors, links, cliMsg, imported, dispatch>>

\* the import rejects
ImportRejected(thrown) ==
    /\ cliPc \in {"importModule", "importEntry"}
    /\ Finish(AfterThrow(thrown))
    /\ UNCHANGED <<serverVars, reqVars, fleetVars, page, acceptors, links, cliMsg, imported, dispatch, calls>>

\* location.reload() takes effect: the page is loaded again and the script restarts
PageReload ==
    /\ cliPc = "idle"
    /\ reloadRequested
    /\ acceptors' = [u \in {} |-> <<>>]
    /\ links' = page.links
    /\ cliMsg' = [type |-> "none", path |-> <<>>, timestamp |-> 0]
    /\ imported' = <<>>
    /\ lastRun' = NoRun
    /\ reloadRequested' = FALSE
    /\ dispatch' = NoDispatch
    /\ calls' = <<>>
    /\ UNCHANGED <<serverVars, reqVars, fleetVars, page, cliPc>>

NextClient ==
    \/ \E moduleUrl \in ModuleUrls : \E arg \in DepsArgs : \E cb \in CallbackKinds :
          HotAccept(moduleUrl, arg, cb)
    \/ \E data \in Messages : OnMessage(data)
    \/ ImportFulfilled
    \/ \E thrown \in ThrownKinds : ImportRejected(thrown)
    \/ PageReload

\* a server that has not started, and a page that has loaded the runtime
InitBrowser ==
    /\ InitServer
    /\ InitRequest
    /\ NoTransform
    /\ SilentOptions
    /\ proxyRules = <<>>
    /\ envPrefix = "null"
    /\ publicKind = "absent"
    /\ basePrefix = <<>>
    /\ InitClient

SpecClient == InitBrowser /\ [][NextClient]_vars

\* ------------------------------------------------------------ transformImports
\* The transpiled code is a sequence of statements. An import statement is
\* [kind, gap, quote, spec]: kind "from" is  from<gap><quote>spec<quote>  (the
\* tail of an import or export declaration), kind "import" is
\* import<gap><quote>spec<quote>, kind "dynamic" is import<gap>(<quote>spec<quote>);
\* gap is the white space after the keyword, "" when there is none. Kind "text"
\* is any other statement.
TextStatement == [kind |-> "text", gap |-> "", quote |-> "", spec |-> <<>>]

\* the statement transformImports puts first: the assignment of import.meta.hot
\* from window.__MINI_DEV_HOT__(import.meta.url) inside the test for the installer
hmrInject == [kind |-> "hmrInject", gap |-> "", quote |-> "", spec |-> <<"import.meta.url">>]

RelativeSpecs ==
    {<<".", "/", "util">>, <<".", "/", "util.ts">>, <<"..", "/", "util">>,
     <<"..", "/", "..", "/", "util">>, <<".", "/", "view">>, <<".", "/", "data">>,
     <<".", "/", "pair">>, <<".", "/", "none">>}

AbsoluteSpecs == {<<"/", "util">>}

BareSpecs == {<<"lib">>, <<"unknown">>}

Specifiers == RelativeSpecs \cup AbsoluteSpecs \cup BareSpecs

ImportStatements ==
    [kind : {"from", "import", "dynamic"}, gap : {"", " "}, quote : {"'", "\""},
     spec : Specifiers]

Statements == ImportStatements \cup {TextStatement}

RECURSIVE CodeSeqs(_)
CodeSeqs(n) == IF n = 0 THEN {<<>>}
               ELSE LET shorter == CodeSeqs(n - 1)
                    IN shorter \cup {Append(q, x) : q \in {y \in shorter : Len(y) = n - 1},
                                                     x \in Statements}

\* the typed-script modules that are served: one at the root, one in a directory
ModulePaths == {<<"/", "main.ts">>, <<"/", "src", "/", "page.ts">>}

Modules == [path : ModulePaths, code : CodeSeqs(MaxImports)]

\* path.normalize of a relative path: ".." is kept where nothing is left to remove
RECURSIVE NormalizeRelative(_, _)
NormalizeRelative(todo, done) ==
    IF todo = <<>> THEN done
    ELSE IF Head(todo) = "." THEN NormalizeRelative(Tail(todo), done)
    ELSE IF Head(todo) = ".." /\ done # <<>> /\ done[Len(done)] # ".."
         THEN NormalizeRelative(Tail(todo), SubSeq(done, 1, Len(done) - 1))
    ELSE NormalizeRelative(Tail(todo), Append(done, Head(todo)))

\* a relative path from its segments
RelPath(segs) == IF segs = <<>> THEN <<".">> ELSE Tail(Render(segs))

\* path.join(a, b): the two joined with '/' and normalised; an empty a is skipped
join(a, b) ==
    IF StartsWith(a, <<"/">>) THEN AbsPath(NormalizeSegs(Segments(a) \o Segments(b), <<>>))
    ELSE RelPath(NormalizeRelative(Segments(a) \o Segments(b), <<>>))

\* '/' + dirname(cleanPath.slice(1))
ImporterDir(cleanPath) ==
    LET segs == Segments(Slice(cleanPath, 1))
    IN <<"/">> \o (IF Len(segs) <= 1 THEN <<".">> ELSE Tail(Render(Dirname(segs))))

\* path + ext
WithExt(path, ext) == SubSeq(path, 1, Len(path) - 1) \o <<path[Len(path)] \o ext>>

\* existsSync(join(this.root, path.slice(1) + ext))
Probe(path, ext) == existsSync(PathJoin(Root, Slice(WithExt(path, ext), 1)))

\* an addExtension that probes .js before the typed extensions
addExtension_JsFirst(path) ==
    IF Probe(path, ".js") THEN WithExt(path, ".js")
    ELSE IF Probe(path, ".tsx") THEN WithExt(path, ".tsx")
    ELSE WithExt(path, ".ts")

addExtension(path) ==
    IF Probe(path, ".tsx") THEN WithExt(path, ".tsx")
    ELSE IF Probe(path, ".ts") THEN WithExt(path, ".ts")
    ELSE IF Probe(path, ".js") THEN WithExt(path, ".js")
    ELSE WithExt(path, ".ts")

\* a resolver that joins without normalising
resolveImportPath_NoNormalize(path, importerDir) ==
    LET resolved == (IF importerDir = <<"/">> THEN <<>> ELSE importerDir) \o <<"/">> \o path
    IN IF extname(resolved) = "" THEN addExtension(resolved) ELSE resolved

\* a resolver that returns what path.join returns, relative or not
resolveImportPath_NoLeadingSlash(path, importerDir) ==
    LET joined == join(Tail(importerDir), path)
    IN IF extname(joined) = "" THEN addExtension(joined) ELSE joined

resolveImportPath(path, importerDir) ==
    IF StartsWith(path, <<"/">>)
    THEN (IF extname(path) = "" THEN addExtension(path) ELSE path)
    ELSE LET base == IF importerDir = <<"/">> THEN <<>> ELSE importerDir
             joined == join(base, path)
             resolved == IF StartsWith(joined, <<"/">>) THEN joined ELSE <<"/">> \o joined
         IN IF extname(resolved) = "" THEN addExtension(resolved) ELSE resolved

\* the entry of a package: "main" of its package.json
PackageEntry(packageDir) == <<"index.js">>

\* resolveBareSpecifier for a specifier without a subpath; <<>> stands for null
resolveBareSpecifier(specifier) ==
    LET packageName == <<Head(specifier)>>
        packageDir == findPackageDir(packageName)
    IN IF packageDir = <<>> THEN <<>>
       ELSE <<"/", "@node_modules", "/">> \o packageName \o <<"/">> \o PackageEntry(packageDir)

\* resolveImport(path): the specifier a matched statement is given
resolveImport(path, importerDir, timestamp) ==
    IF Head(path) \in {".", "..", "/"}
    THEN basePrefix \o resolveImportPath(path, importerDir) \o StampOf(timestamp)
    ELSE IF resolveBareSpecifier(path) # <<>>
    THEN basePrefix \o resolveBareSpecifier(path) \o StampOf(timestamp)
    ELSE path

\* code.replace(regex, template) for one of the three expressions: each asks
\* for the keyword, white space (\s+), then the quote or, for the dynamic
\* form, the parenthesis; the template writes the statement with a space after
\* from and import, none before the parenthesis, and single quotes
Replace(code, kind, importerDir, timestamp) ==
    [i \in DOMAIN code |->
        IF code[i].kind = kind /\ code[i].gap # ""
        THEN [kind |-> kind, gap |-> IF kind = "dynamic" THEN "" ELSE " ", quote |-> "'",
              spec |-> resolveImport(code[i].spec, importerDir, timestamp)]
        ELSE code[i]]

\* a transformImports that appends the hot-update statement
transformImports_InjectLast(code, importerDir, timestamp) ==
    Replace(Replace(Replace(code, "from", importerDir, timestamp),
                    "dynamic", importerDir, timestamp),
            "import", importerDir, timestamp) \o <<hmrInject>>

transformImports(code, importerDir, timestamp) ==
    <<hmrInject>> \o
        Replace(Replace(Replace(code, "from", importerDir, timestamp),
                        "dynamic", importerDir, timestamp),
                "import", importerDir, timestamp)

\* serveTypeScript from the transpiler's answer to the body it sends
TransformImports ==
    /\ tsBody = <<>>
    /\ \E t \in now..MaxTime :
          /\ DateNow(t)
          /\ tsBody' = transformImports(tsModule.code, ImporterDir(tsModule.path), t)
    /\ UNCHANGED <<clientVars, fleetVars, basePrefix, moduleGraph, clients, httpServer, wss, watcher, startPc, startValue,
                   stopPc, wsState, inbox, disk, pending, inflight, sent, lastChange, stopTrace,
                   served, proxyRules, envPrefix, publicEnv, publicKind, reqPc, reqUrl, resStatus,
                   resBody, resEnded, resFile, resSource, resBy, outcome, raised, tsModule,
                   silent, verbose, terminal>>

InitImports ==
    /\ InitServer
    /\ InitRequest
    /\ proxyRules = <<>>
    /\ envPrefix = "null"
    /\ publicKind = "absent"
    /\ page = NoPage
    /\ LoadPage
    /\ tsModule \in Modules
    /\ tsBody = <<>>
    /\ SilentOptions

NextImports == TransformImports

SpecImports == InitImports /\ [][NextImports]_vars

\* ------------------------------------------------------------ requests of the env endpoint
EnvUrls == {<<"/", "@env">>, <<"/", "app", "/", "@env">>}

\* the response is complete; the next request comes with a request and a
\* response object of its own, to the same server
NextArrives ==
    /\ reqPc = "settled"
    /\ reqPc' = "idle"
    /\ reqUrl' = <<>>
    /\ resStatus' = 0
    /\ resBody' = NoBody
    /\ resEnded' = FALSE
    /\ resFile' = <<>>
    /\ resSource' = <<>>
    /\ resBy' = "none"
    /\ outcome' = "pending"
    /\ raised' = ""
    /\ UNCHANGED <<serverVars, clientVars, fleetVars, tsModule, tsBody, proxyRules, envPrefix,
                   publicEnv, publicKind>>

\* a server whose env endpoint is enabled
InitEnv == InitRouter /\ envPrefix # "null"

NextEnv ==
    \/ \E url \in EnvUrls : ReqReceive(url)
    \/ NextArrives

SpecEnv == InitEnv /\ [][NextEnv]_vars

\* ------------------------------------------------------------ modules that import modules
\* from '<spec>'
ImportFrom(spec) == [kind |-> "from", gap |-> " ", quote |-> "'", spec |-> spec]

\* three typed-script files of the root, with what the transpiler gives for
\* them: main.ts imports util.ts, src/page.ts imports util.ts and main.ts
LinkedModules ==
    {[path |-> <<"/", "main.ts">>, code |-> <<ImportFrom(<<".", "/", "util">>)>>],
     [path |-> <<"/", "util.ts">>, code |-> <<TextStatement>>],
     [path |-> <<"/", "src", "/", "page.ts">>,
      code |-> <<ImportFrom(<<"..", "/", "util">>), ImportFrom(<<"..", "/", "main.ts">>)>>]}

\* serveTypeScript for one of them, from the transpiler's answer on:
\* transformImports reads the clock for the ?t= values, serveTypeScript reads
\* it again for the record, sets the record and answers the rewritten code
ServeModule(m) ==
    /\ httpServer = "listening"
    /\ \E t1 \in now..MaxTime : \E t2 \in t1..MaxTime :
         /\ DateNow(t2)
         /\ LET transformed == transformImports(m.code, ImporterDir(m.path), t1)
                record == [code |-> transformed, timestamp |-> t2, url |-> m.path]
            IN /\ moduleGraph' = [u \in DOMAIN moduleGraph \cup {m.path} |->
                                    IF u = m.path THEN record ELSE moduleGraph[u]]
               /\ tsModule' = m
               /\ tsBody' = transformed
    /\ UNCHANGED <<clientVars, fleetVars, terminal, silent, verbose, basePrefix, clients, httpServer,
                   wss, watcher, startPc, startValue, stopPc, wsState, inbox, disk, pending, inflight,
                   sent, lastChange, stopTrace, served, proxyRules, envPrefix, publicEnv, publicKind,
                   reqPc, reqUrl, resStatus, resBody, resEnded, resFile, resSource, resBy, outcome,
                   raised>>

NextLinked ==
    \/ Start
    \/ Listening
    \/ \E m \in LinkedModules : ServeModule(m)

SpecLinked == Init /\ [][NextLinked]_vars

\* ------------------------------------------------------------ two instances
\* a clients field that is one set for every object of the class
AddClient_Static(i, s) ==
    [j \in Instances |-> [instances[j] EXCEPT !.clients = @ \cup {s}]]

\* this.clients.add(ws)
AddClient(i, s) == [instances EXCEPT ![i].clients = @ \cup {s}]

\* wss.on('connection') of object i: a browser connects to i's port
Accept(i, s) ==
    /\ sockets[s].owner = "none"
    /\ sockets' = [sockets EXCEPT ![s] = [owner |-> i, readyState |-> "open", inbox |-> <<>>]]
    /\ instances' = AddClient(i, s)
    /\ Announce({"connected"})
    /\ UNCHANGED <<reqVars, clientVars, instanceVars>>

\* ws.on('close') of a connection of object i: this.clients.delete(ws)
Closed(i, s) ==
    /\ sockets[s].owner = i
    /\ sockets[s].readyState = "open"
    /\ sockets' = [sockets EXCEPT ![s].readyState = "closed"]
    /\ instances' = [instances EXCEPT ![i].clients = @ \ {s}]
    /\ log({"disconnected"})
    /\ UNCHANGED <<reqVars, clientVars, instanceVars>>

\* serveTypeScript of object i answers a request: this.moduleGraph.set(url, ...)
Serve(i, u) ==
    /\ \E t1 \in now..MaxTime : \E t2 \in t1..MaxTime :
         /\ DateNow(t2)
         /\ LET r == [url |-> u, src |-> disk[FileOf(u)]]
                record == [code |-> Transformed(r, t1), timestamp |-> t2, url |-> u]
                graph == instances[i].moduleGraph
            IN instances' = [instances EXCEPT ![i].moduleGraph =
                                [v \in DOMAIN graph \cup {u} |-> IF v = u THEN record ELSE graph[v]]]
    /\ UNCHANGED <<reqVars, clientVars, sockets, terminal, basePrefix, moduleGraph, clients,
                   httpServer, wss, watcher, startPc, startValue, stopPc, wsState, inbox, disk, pending,
                   inflight, sent, lastChange, stopTrace, served, silent, verbose>>

\* handleFileChange of object i: this.moduleGraph.delete(url), then one send to
\* every member of this.clients whose readyState is 1
Change(i, file) ==
    /\ SumOver([s \in Sockets |-> Len(sockets[s].inbox)], Sockets) < MaxEdits
    /\ \E t \in now..MaxTime :
         /\ DateNow(t)
         /\ LET url == ChangeUrl(file)
                graph == instances[i].moduleGraph
                pathForClient == IF basePrefix # <<>> THEN basePrefix \o url ELSE url
                msg == [type |-> "update", path |-> pathForClient, timestamp |-> t]
            IN /\ instances' = [instances EXCEPT
                                  ![i].moduleGraph = [v \in DOMAIN graph \ {url} |-> graph[v]]]
               /\ sockets' = [s \in Sockets |->
                                IF s \in instances[i].clients /\ sockets[s].readyState = "open"
                                THEN [sockets[s] EXCEPT !.inbox = Append(@, msg)]
                                ELSE sockets[s]]
    /\ Announce({"changed"} \cup (IF instances[i].clients # {} THEN {"sent"} ELSE {}))
    /\ UNCHANGED <<reqVars, clientVars, basePrefix, moduleGraph, clients,
                   httpServer, wss, watcher, startPc, startValue, stopPc, wsState, inbox, disk, pending,
                   inflight, sent, lastChange, stopTrace, served, silent, verbose>>

NextInstances ==
    \/ \E i \in Instances, s \in Sockets : Accept(i, s)
    \/ \E i \in Instances, s \in Sockets : Closed(i, s)
    \/ \E i \in Instances, u \in TsUrls : Serve(i, u)
    \/ \E i \in Instances, f \in WatchedFiles : Change(i, f)

SpecInstances == Init /\ [][NextInstances]_vars

\* ------------------------------------------------------------ the terminal
\* a server constructed with any silent and verbose options, through its lifecycle
InitConsole ==
    /\ InitServer
    /\ InitRequest
    /\ NoTransform
    /\ silent \in BOOLEAN
    /\ verbose \in BOOLEAN
    /\ proxyRules = <<>>
    /\ envPrefix = "null"
    /\ publicKind = "absent"
    /\ page = NoPage
    /\ LoadPage

SpecConsole == InitConsole /\ [][NextServer]_vars

\* ------------------------------------------------------------ properties
\* the '/'-led path of a file relative to the served root, under the base prefix
ClientPathOf(file) == basePrefix \o SubSeq(file, Len(Root) + 1, Len(file))

ChangeHandled == Len(sent') = Len(sent) + 1

C5_StampsStrictlyIncrease ==
    \A i, j \in DOMAIN sent :
        (i < j /\ sent[i].path = sent[j].path) => sent[i].timestamp < sent[j].timestamp

\* C6: when a change event for URL u is handled, the registry holds no entry
\* for u at the moment the update messages are sent.
C6_InvalidateBeforeBroadcast ==
    lastChange.to # {} => lastChange.url \notin lastChange.registryAtSend

C6_Witness == lastChange.hadEntry /\ lastChange.to # {}

\* C7: while the server runs (started, and stop() has not reached the
\* connections) the connection set is the set of accepted connections whose
\* close event has not fired, and a connection that left the set never returns.
Running == startPc = "resolved" /\ stopPc \in {"idle", "awaitWatcher"}

C7_ConnectionSet ==
    /\ [](Running => clients = {c \in Conns : wsState[c] \in {"open", "closing"}})
    /\ [][\A c \in Conns : (wsState[c] # "none" /\ c \notin clients) => c \notin clients']_vars

C7_Witness ==
    /\ Running
    /\ \E c \in Conns : wsState[c] = "closed" /\ c \notin clients

\* C8: stop() closes the watcher and waits for it, then initiates close on every
\* member of the connection set and empties the set, then closes the listener,
\* and resolves only when the listener has closed.
StopRank(op) ==
    CASE op = "watcher.close" -> 1
      [] op = "watcher.closed" -> 2
      [] op = "client.close" -> 3
      [] op = "clients.clear" -> 4
      [] op = "wss.close" -> 5
      [] op = "httpServer.close" -> 6
      [] op = "httpServer.closed" -> 7

StopOps == {stopTrace[i].op : i \in DOMAIN stopTrace}

C8_StopOrder ==
    /\ \A i, j \in DOMAIN stopTrace :
          i < j => StopRank(stopTrace[i].op) <= StopRank(stopTrace[j].op)
    /\ "httpServer.close" \in StopOps =>
          /\ {"watcher.closed", "clients.clear"} \subseteq StopOps
          /\ watcher = "closed"
          /\ clients = {}
          /\ \A c \in Conns : wsState[c] # "open"
    /\ stopPc = "done" => "httpServer.closed" \in StopOps /\ httpServer = "closed"

C8_Witness ==
    /\ stopPc = "done"
    /\ \E i \in DOMAIN stopTrace : stopTrace[i].op = "client.close"

\* C9: once stop() has begun closing the connections no change event is
\* handled: no update message is sent and no registry entry is removed.
TeardownBegun == stopPc \in {"awaitHttp", "done"}

C9_NoChangeAfterTeardown ==
    [][TeardownBegun =>
          /\ inbox' = inbox
          /\ sent' = sent
          /\ lastChange' = lastChange
          /\ DOMAIN moduleGraph \subseteq DOMAIN moduleGraph']_vars

C9_Witness ==
    /\ TeardownBegun
    /\ DOMAIN moduleGraph # {}
    /\ Len(sent) < SumOver(disk, WatchedFiles)

\* C10: when handling an update notification throws (the re-import rejects or
\* an acceptance callback throws), the handler calls location.reload() and its
\* promise does not reject.
C10_FailureReloads ==
    cliPc = "idle" /\ lastRun.threw => lastRun.reloaded /\ ~lastRun.rejected

\* the url the handler computed for the message it last worked on
MsgUrl == IF StartsWith(cliMsg.path, <<"/">>) THEN cliMsg.path ELSE <<"/">> \o cliMsg.path

\* the server-relative URLs of the modules that had called accept without a
\* dependency list when the message was dispatched
SelfAccepted == {PathnameOf(Tail(k)) : k \in {x \in dispatch.keys : Head(x) = Origin}}

\* C11: an update whose path is the server-relative URL of a module that has
\* called accept without a dependency list re-imports that module and runs
\* its callbacks; the entry fallback (or the reload that replaces it) is
\* not taken.
C11_SelfAcceptReimports ==
    dispatch.branch \in {"entry", "reload"} => MsgUrl \notin SelfAccepted

\* the href of the page's i-th stylesheet link with the single parameter t
WellStamped(i, timestamp) ==
    page.links[i] \o <<IF IndexOf(page.links[i], <<"?">>) # 0 THEN "&" ELSE "?",
                       "t=" \o ToString(timestamp)>>

\* C12: after any sequence of updates for a stylesheet, every matching link's
\* href is its original URL with exactly one parameter t, the latest
\* timestamp, attached with '?' or, after an existing query, with '&'.
C12_OneStampPerLink ==
    dispatch.branch = "css" =>
        \A i \in DOMAIN links :
            IndexOf(page.links[i], PathnameOf(MsgUrl)) # 0 =>
                links[i] = WellStamped(i, cliMsg.timestamp)

\* the stylesheet links of the page whose href includes the path of the message
MatchingLinks == {i \in DOMAIN links : IndexOf(page.links[i], PathnameOf(MsgUrl)) # 0}

\* C13: on an update for a stylesheet every matching link is given an href with
\* the new timestamp, the other links keep theirs, and the handler imports
\* nothing, calls no callback and does not reload, whatever is registered.
C13_CssOnlyRewritesLinks ==
    dispatch.branch = "css" =>
        /\ \A i \in MatchingLinks : Last(links[i]) = "t=" \o ToString(cliMsg.timestamp)
        /\ \A i \in DOMAIN links \ MatchingLinks : links[i] = page.links[i]
        /\ imported = <<>>
        /\ calls = <<>>
        /\ ~reloadRequested
        /\ cliPc = "idle"

C13_Witness ==
    /\ dispatch.branch = "css"
    /\ Cardinality(MatchingLinks) >= 2
    /\ MatchingLinks # DOMAIN links
    /\ MsgUrl \in dispatch.keys

\* the page's module scripts other than the client runtime, by position
EntryScripts == {i \in DOMAIN page.scripts : page.scripts[i] # HmrClientSrc}

\* the path of the first of them
EntryPath ==
    PathnameOf(page.scripts[CHOOSE i \in EntryScripts : \A j \in EntryScripts : i <= j])

\* C14: an update that is not for a stylesheet and whose path has no
\* registration re-imports the page's entry module (the first module script
\* that is not the client runtime) with the new timestamp; the page is
\* reloaded only when there is no such script or the import failed.
C14_EntryFallback ==
    cliMsg.type = "update" /\ ~IsCssUrl(MsgUrl) /\ MsgUrl \notin dispatch.keys =>
        IF EntryScripts # {}
        THEN /\ dispatch.branch = "entry"
             /\ imported = EntryPath \o StampOf(cliMsg.timestamp)
             /\ cliPc = "idle" /\ ~lastRun.threw => ~reloadRequested
        ELSE /\ dispatch.branch = "reload"
             /\ imported = <<>>
             /\ reloadRequested

C14_Witness ==
    /\ dispatch.branch = "entry"
    /\ Head(page.scripts) = HmrClientSrc
    /\ dispatch.keys # {}
    /\ cliPc = "idle"
    /\ ~lastRun.threw

\* C17: the body of a 200 typed-script response is the transpiled content
\* that the same request read from the file, whether the registry held no
\* entry, a current entry or a stale entry for the URL when it was written.
C17_BodyFromFileRead ==
    \A i \in DOMAIN served : served[i].status = 200 => served[i].body.src = served[i].read

C17_Witness == served # <<>> /\ served[1].status = 200 /\ served[1].held = "stale"

\* code without the values of its ?t= parameters
StripStamps(code) == code.src

\* a step in which serveTypeScript answers a request for u
Answers(u) == served' # <<>> /\ served'[1].url = u /\ served'[1].status = 200

\* a step in which handleFileChange runs for u
Invalidates(u) == sent' # sent /\ lastChange'.url = u

C19_StaleUntilNextWrite ==
    [][\A u \in TsUrls :
          /\ Answers(u) => /\ u \in DOMAIN moduleGraph'
                            /\ moduleGraph'[u].code.src = served'[1].read
          /\ Invalidates(u) => u \notin DOMAIN moduleGraph'
          /\ (~Answers(u) /\ ~Invalidates(u) /\ u \in DOMAIN moduleGraph)
                => (u \in DOMAIN moduleGraph' /\ moduleGraph'[u] = moduleGraph[u])]_vars

C19_Witness ==
    /\ served # <<>>
    /\ served[1].status = 200
    /\ served[1].read < disk[FileOf(served[1].url)]
    /\ served[1].held = "none"
    /\ lastChange.url = served[1].url
    /\ FileOf(served[1].url) \notin pending
    /\ RegistryHolds(served[1].url) = "stale"

\* C20: a change event removes no entry but the one of its own URL, and when
\* that entry is already absent (an earlier event removed it and no request
\* wrote it again) the handler completes and leaves the registry unchanged.
C20_InvalidateIdempotent ==
    [][sent' # sent =>
          /\ lastChange'.url \notin DOMAIN moduleGraph'
          /\ DOMAIN moduleGraph \ DOMAIN moduleGraph' \subseteq {lastChange'.url}
          /\ lastChange'.url \notin DOMAIN moduleGraph => moduleGraph' = moduleGraph]_vars

C20_Witness ==
    /\ Len(sent) >= 2
    /\ sent[Len(sent)].path = sent[Len(sent) - 1].path
    /\ lastChange.url \in TsUrls
    /\ ~lastChange.hadEntry
    /\ moduleGraph = EmptyGraph

\* a step in which a request for u is answered without its transpiled code
Fails(u) == served' # <<>> /\ served'[1].url = u /\ served'[1].status # 200

\* C21: a typed-script request whose transpilation fails is answered 500 with
\* the transpiler's message as plain text, and the registry after the answer
\* is the registry before it.
C21_FailureLeavesRegistry ==
    [][\A u \in TsUrls :
          Fails(u) => /\ served'[1].status = 500
                      /\ served'[1].type = "text/plain"
                      /\ served'[1].body = [message |-> TransformError]
                      /\ moduleGraph' = moduleGraph]_vars

C21_Witness ==
    /\ served # <<>>
    /\ served[1].status = 500
    /\ served[1].held = "current"
    /\ served[1].url \in DOMAIN moduleGraph

\* a rule matches a logical path that equals its prefix or starts with prefix + '/'
Matches(rule, path) == path = rule.path \/ StartsWith(path, rule.path \o <<"/">>)

\* the matching rules that no matching rule exceeds in prefix length
LongestMatches ==
    {i \in DOMAIN proxyRules :
        /\ Matches(proxyRules[i], Lookup)
        /\ \A j \in DOMAIN proxyRules :
              Matches(proxyRules[j], Lookup)
                  => StrLen(proxyRules[j].path) <= StrLen(proxyRules[i].path)}

\* the request has been forwarded: the upstream's status line is relayed
Forwarded == resBy = "proxy" /\ resBody.kind = "upstream"

\* C22: a forwarded request was forwarded to the target of the matching rule
\* with the longest prefix, and a request the proxy step answered or passed on
\* matched a rule or matched none, respectively.
C22_LongestPrefixRule ==
    /\ Forwarded =>
          \E i \in LongestMatches : StartsWith(resBody.arg, proxyRules[i].target \o Lookup)
    /\ resBy = "proxy" => LongestMatches # {}
    /\ reqPc \in {"public", "nodeModule", "ext"} => LongestMatches = {}

C22_Witness ==
    /\ Forwarded
    /\ Cardinality({i \in DOMAIN proxyRules : Matches(proxyRules[i], Lookup)}) = 2

\* the request has a logical path: it is inside the base path
HasLogicalPath ==
    /\ reqPc # "idle"
    /\ basePrefix # <<>> => StartsWith(PathnameOf(reqUrl), basePrefix \o <<"/">>)

\* the logical paths handleRequest answers before the proxy step
BeforeProxy ==
    \/ Lookup \in {<<>>, <<"/">>, <<"/", "@hmr-client">>}
    \/ Lookup = <<"/", "@env">> /\ envPrefix # "null"

\* the file a file handler would look for under the served root
RootFile == PathJoin(Root, Slice(Lookup, 1))

OriginalQuery ==
    LET i == IndexOf(reqUrl, <<"?">>) IN IF i = 0 THEN <<>> ELSE Slice(reqUrl, i)

\* C24: the URL fetched for a forwarded request is the rule's target, the
\* logical path and the whole query of the request.
C24_UpstreamSeesPathAndQuery ==
    Forwarded =>
        \E i \in LongestMatches :
            resBody.arg = proxyRules[i].target \o Lookup
                \o (IF OriginalQuery # <<>> THEN <<"?">> \o OriginalQuery ELSE <<>>)

IsRewritable(st) ==
    /\ st.kind \in {"from", "import", "dynamic"}
    /\ st.kind \in {"from", "import"} => st.gap = " "
    /\ Head(st.spec) \in {".", "..", "/"}

\* the directory serveTypeScript gave transformImports for the module
ModuleDir == ImporterDir(tsModule.path)

\* C26: in the code transformImports returns, every statement of one of the
\* three shapes whose specifier starts with '.' or '/' carries the resolved
\* server-relative URL followed by '?t=<timestamp>' in place of its specifier.
C26_AllShapesRewritten ==
    tsBody # <<>> =>
        \A i \in DOMAIN tsModule.code :
            IsRewritable(tsModule.code[i]) =>
                \E t \in 0..MaxTime :
                    tsBody[i + 1].spec =
                        basePrefix \o resolveImportPath(tsModule.code[i].spec, ModuleDir)
                            \o StampOf(t)

\* the statements of the module that one of the three expressions matches
\* and whose specifier is relative
RelativeImports ==
    {i \in DOMAIN tsModule.code :
        /\ tsModule.code[i].kind \in {"from", "import", "dynamic"}
        /\ tsModule.code[i].gap # ""
        /\ Head(tsModule.code[i].spec) \in {".", ".."}}

\* what the resolver returned for statement i: the specifier written, without
\* the base prefix and the stamp
ResolvedOf(i) == PathnameOf(Slice(tsBody[i + 1].spec, Len(basePrefix)))

\* C27: for every relative specifier and every module, the resolver returns
\* a path that begins with '/'.
C27_ResolvedStartsWithSlash ==
    tsBody # <<>> => \A i \in RelativeImports : StartsWith(ResolvedOf(i), <<"/">>)

C27_Witness ==
    /\ tsBody # <<>>
    /\ basePrefix = <<>>
    /\ \E i \in RelativeImports :
          /\ tsModule.path = <<"/", "main.ts">>
          /\ tsModule.code[i].spec = <<".", "/", "none">>
          /\ ResolvedOf(i) = <<"/", "none.ts">>

\* C28: the path the resolver returns for a relative specifier has no '.' and
\* no '..' segment, also when the specifier climbs to the served root or above.
C28_NoDotSegments ==
    tsBody # <<>> =>
        \A i \in RelativeImports :
            \A k \in DOMAIN ResolvedOf(i) : ResolvedOf(i)[k] \notin {".", ".."}

C28_Witness ==
    /\ tsBody # <<>>
    /\ \E i \in RelativeImports :
          /\ tsModule.path = <<"/", "src", "/", "page.ts">>
          /\ tsModule.code[i].spec = <<"..", "/", "..", "/", "util">>
          /\ ResolvedOf(i) = <<"/", "util.ts">>

\* the path of statement i before an extension is added to it
Unextended(i) ==
    IF StartsWith(tsModule.code[i].spec, <<"/">>) THEN tsModule.code[i].spec
    ELSE join(ModuleDir, tsModule.code[i].spec)

\* the extensions, of .tsx, .ts and .js in that order, whose file exists
Existing(path) == SelectSeq(<<".tsx", ".ts", ".js">>, LAMBDA e : Probe(path, e))

\* the statements one of the three expressions matches whose specifier starts
\* with '.' or '/'
ResolvedImports ==
    RelativeImports \cup
        {i \in DOMAIN tsModule.code :
            /\ tsModule.code[i].kind \in {"from", "import", "dynamic"}
            /\ tsModule.code[i].gap # ""
            /\ Head(tsModule.code[i].spec) = "/"}

\* C29: a resolved path without an extension is given the first of .tsx, .ts,
\* .js whose file exists under the served root, and .ts when none does; a
\* path that has an extension is returned as it is.
C29_ExtensionPriority ==
    tsBody # <<>> =>
        \A i \in ResolvedImports :
            ResolvedOf(i) =
                IF extname(Unextended(i)) # "" THEN Unextended(i)
                ELSE IF Existing(Unextended(i)) # <<>>
                THEN WithExt(Unextended(i), Head(Existing(Unextended(i))))
                ELSE WithExt(Unextended(i), ".ts")

C29_Witness ==
    /\ tsBody # <<>>
    /\ \E i \in ResolvedImports :
          /\ Len(Existing(Unextended(i))) = 3
          /\ ResolvedOf(i) = <<"/", "view.tsx">>

\* C30: the code transformImports returns begins with the hot-update
\* statement, followed by the module's statements in their order, none of
\* which comes before it.
C30_PreambleFirst ==
    tsBody # <<>> =>
        /\ tsBody[1] = hmrInject
        /\ Len(tsBody) = Len(tsModule.code) + 1
        /\ \A i \in DOMAIN tsModule.code : tsBody[i + 1].kind = tsModule.code[i].kind

C30_Witness ==
    /\ tsBody # <<>>
    /\ Len(tsBody) = 2
    /\ tsBody[2].kind = "from"
    /\ tsBody[2].spec # tsModule.code[1].spec

\* the files below the served root that are in no dependency or
\* version-control directory
ListedFiles ==
    {f \in FsFiles : /\ StartsWith(f, Root \o <<"/">>)
                     /\ \A i \in DOMAIN f : f[i] \notin {"node_modules", ".git"}}

\* the path a file is requested by: its path inside public/ or inside the root
LinkOf(f) ==
    basePrefix \o (IF StartsWith(f, PublicDir \o <<"/">>) THEN Slice(f, Len(PublicDir))
                   ELSE Slice(f, Len(Root)))

\* C31: the body of every 404 written for a file that was not found holds a
\* link to every file below the served root, those under dependency and
\* version-control directories excepted.
C31_ListingNamesEveryFile ==
    reqPc = "settled" /\ resStatus = 404 =>
        \A f \in ListedFiles : LinkOf(f) \in resBody.arg.links

\* the request is for the document root: '/' without a base path, the base
\* ('/app/') with one
AtDocumentRoot ==
    PathnameOf(reqUrl) = (IF basePrefix = <<>> THEN <<"/">> ELSE Base)

\* C32: a request for the document root is answered 302 with Location
\* '/index.html' without a base path and base + 'index.html' with one.
C32_RootRedirect ==
    reqPc = "settled" /\ AtDocumentRoot =>
        /\ resStatus = 302
        /\ resBody = [kind |-> "redirect",
                      arg |-> IF basePrefix = <<>> THEN <<"/", "index.html">>
                              ELSE basePrefix \o <<"/", "index.html">>]
        /\ resEnded
        /\ outcome = "resolved"

C32_Witness ==
    /\ reqPc = "settled"
    /\ basePrefix # <<>>
    /\ reqUrl = <<"/", "app", "/", "?", "foo=1">>
    /\ resStatus = 302

\* C33: a server whose silent option is true writes nothing to the terminal,
\* whatever it has done (start, connections, file changes, stop).
C33_SilentWritesNothing == silent => terminal = {}

\* the connections an object's socket server accepted
OwnedBy(i) == {s \in Sockets : sockets[s].owner = i}

\* C34: a connection is in the connection set of the object that accepted it
\* and of no other, and every step is taken by one object and leaves the
\* registry and the connection set of the other as they were and sends
\* nothing to the other's connections.
C34_InstancesShareNothing ==
    /\ [](\A i \in Instances : instances[i].clients \subseteq OwnedBy(i))
    /\ [][\E i \in Instances : \A j \in Instances \ {i} :
             /\ instances'[j] = instances[j]
             /\ \A s \in OwnedBy(j) : sockets'[s] = sockets[s]]_vars

C34_Witness ==
    /\ instances["a"].clients # {}
    /\ instances["b"].clients # {}
    /\ DOMAIN instances["a"].moduleGraph # DOMAIN instances["b"].moduleGraph
    /\ \E s \in instances["a"].clients : sockets[s].inbox # <<>>
    /\ \E s \in instances["b"].clients : sockets[s].inbox = <<>>

\* C35: the promise of start() is resolved only once the listener is bound,
\* with the configured port and with the local URL that ends with the base
\* path; from then until stop() is called the listener is bound and a
\* request that arrives is taken.
C35_StartResolvesWhenListening ==
    /\ startPc # "resolved" => startValue = NoValue
    /\ startPc = "resolved" =>
          /\ httpServer \notin {"null", "created"}
          /\ startValue.port = Port
          /\ startValue.url = <<"http://localhost:", Port>>
                                  \o (IF basePrefix = <<>> THEN <<>> ELSE basePrefix \o <<"/">>)
    /\ startPc = "resolved" /\ stopPc = "idle" =>
          /\ httpServer = "listening"
          /\ \A u \in TsUrls : ENABLED TsRequest(u)

C35_Witness ==
    /\ startPc = "resolved"
    /\ stopPc = "idle"
    /\ basePrefix # <<>>
    /\ clients # {}

\* the statements of a served module's code that import the module at path m
ImportsOf(code, m) ==
    {i \in DOMAIN code : /\ code[i].kind \in {"from", "import", "dynamic"}
                         /\ StartsWith(code[i].spec, basePrefix \o m \o <<"?">>)}

\* C36: in the code the registry holds, the ?t= value of an import of a
\* module M that has a record is the timestamp of M's record.
C36_TokenIsRecordTimestamp ==
    \A a \in DOMAIN moduleGraph : \A m \in DOMAIN moduleGraph :
        \A i \in ImportsOf(moduleGraph[a].code, m) :
            moduleGraph[a].code[i].spec = basePrefix \o m \o StampOf(moduleGraph[m].timestamp)

\* the file of public/ at the logical path of the request
PublicFile == PathJoin(PublicDir, Slice(Lookup, 1))

\* the request came to the file steps: no redirect, endpoint or proxy rule took it
CameToFiles == resBy \notin {"none", "redirect", "hmrClient", "env", "base", "proxy"}

\* C37: a request that comes to the file steps and whose logical path is a
\* regular file of public/ is answered 200 with that file as it is, by the
\* public handler, and the registry gets no entry, whether or not the root
\* holds a file of the same path.
C37_PublicFileVerbatim ==
    reqPc = "settled" /\ CameToFiles /\ isFile(PublicFile) /\ IsWithin(PublicDir, PublicFile) =>
        /\ resBy = "public"
        /\ resStatus = 200
        /\ resBody = [kind |-> "file", arg |-> PublicFile]
        /\ resFile = PublicFile
        /\ moduleGraph = EmptyGraph

C37_Witness ==
    /\ reqPc = "settled"
    /\ resBy = "public"
    /\ Lookup \in {<<"/", "main.ts">>, <<"/", "index.html">>}
    /\ isFile(PathJoin(Root, Slice(Lookup, 1)))
    /\ resBody = [kind |-> "file", arg |-> PublicFile]

\* the step answers a request of the env endpoint
EnvAnswered == reqPc = "idle" /\ reqPc' = "settled" /\ resBy' = "env"

RootTarget == PathJoin(Root, Slice(Lookup, 1))

\* the request is for one of the directory links of the 404 page
AtListedDirectory ==
    PathnameOf(reqUrl) \in listVisitablePaths /\ Last(PathnameOf(reqUrl)) = "/"

====
